---- MODULE Spec2Model ----
(***************************************************************************)
(* Model of hardware-setup/scripts/ml-fan-control.py: the temperature      *)
(* driven dual-fan controller (FanController) for two MI60 GPUs.           *)
(*                                                                         *)
(* Units.  Temperatures are integer degrees C, utilization is percent,     *)
(* power is integer watts, PWM is the raw 0..255 duty value.  Times are    *)
(* integer milliseconds (0.05 s = 50, 0.1 s = 100, 30.0 s = 30000), so the *)
(* float products of the source become exact integer arithmetic.           *)
(***************************************************************************)
EXTENDS Integers, Sequences, FiniteSets, TLC

VARIABLES
    pc,                   \* position of the process (see PcValues)
    EXPLORE_MODE,         \* "--explore" in sys.argv
    warmup_i,             \* iterations of the warm-up loop already run
    ticks,                \* iterations of the while-True loop already run
    faults,               \* iterations so far in which an exception was raised
    temp_history,         \* deque(maxlen=10)
    util_history,         \* deque(maxlen=10)
    pwm_history,          \* deque(maxlen=10)
    current_intake_pwm,   \* self.current_intake_pwm
    current_exhaust_pwm,  \* self.current_exhaust_pwm
    explore_exhaust_idx,  \* self.explore_exhaust_idx (0-based, as in Python)
    explore_start_time,   \* self.explore_start_time (None or a time)
    explore_load_bucket,  \* self.explore_load_bucket (None or a bucket)
    now,                  \* last value time.time() returned (read by explore_exhaust)
    poll_interval,        \* local poll_interval of run()
    temps, utils, powers, \* locals of run(): the last successful sensor read
    target_intake,        \* local of run()
    target_exhaust,       \* local of run()
    intake_pwm,           \* local of run(): the value handed to set_pwm
    exhaust_pwm,          \* local of run(): the value handed to set_pwm
    driver,               \* local of run(): the policy name
    outcome,              \* how the last iteration ended
    pre,                  \* the fields and poll_interval as the last iteration found them
    pwm_writes,           \* the writes to the PWM nodes the last iteration made, in order
    steps,                \* the calls the last iteration made, in order
    hw_intake_pwm,        \* content of the pwm3 node
    hw_exhaust_pwm,       \* content of the pwm1 node
    hw_intake_enable,     \* content of the pwm3_enable node
    hw_exhaust_enable,    \* content of the pwm1_enable node
    csv_rows,             \* number of rows log() appended to LOG_FILE
    csv_last,             \* the last row log() appended
    console,              \* the last line log() printed
    twin,                 \* the same run without --explore (see TwinInit)
    call                  \* harness for the pure functions (see SpecRate, SpecCurve)

progVars == <<pc, EXPLORE_MODE, warmup_i, ticks, faults>>
histVars == <<temp_history, util_history, pwm_history>>
fanVars == <<current_intake_pwm, current_exhaust_pwm>>
exploreVars == <<explore_exhaust_idx, explore_start_time, explore_load_bucket, now>>
localVars == <<temps, utils, powers, target_intake, target_exhaust, intake_pwm,
               exhaust_pwm, driver>>
hwVars == <<hw_intake_pwm, hw_exhaust_pwm, hw_intake_enable, hw_exhaust_enable>>
logVars == <<csv_rows, csv_last, console>>
tickVars == <<pre, pwm_writes, steps>>
vars == <<progVars, histVars, fanVars, exploreVars, poll_interval, localVars,
          outcome, tickVars, twin, hwVars, logVars, call>>

\* Python's None, and an unassigned local: a variable that is None (or not yet
\* assigned) or holds a value x is None or Some(x).
None == <<>>
Some(x) == <<x>>

-----------------------------------------------------------------------------
(* Configuration constants of the source.                                  *)

POLL_INTERVAL_CRITICAL == 50
POLL_INTERVAL_NORMAL == 100
EMERGENCY_TEMP == 90
MIN_PWM == 110
MAX_PWM == 255
MAX_PWM_CHANGE_PER_SEC == 10
EXPLORE_HOLD_TIME == 30000
EXPLORE_TEMP_CEILING == 85
EXHAUST_MIN_PWM == 150
HISTORY_MAXLEN == 10
WARMUP_ITERATIONS == 5
MIN_DECREASE == 5
TREND_THRESHOLD == 5
TREND_GAIN == 5
TREND_BOOST_CAP == 30
LOAD_BUCKET_WATTS == 50
EXPLORE_UTIL_THRESHOLD == 50
CRITICAL_UTIL == 90
CRITICAL_TEMP == 80
MS_PER_SEC == 1000

TEMP_INTAKE_POINTS ==
    << <<50, 110>>, <<65, 170>>, <<75, 210>>, <<82, 230>>, <<90, 255>> >>

\* Mutant of TEMP_EXHAUST_POINTS: the PWM of the 75 degree point mistyped
\* (130 for 180), so the table is no longer non-decreasing.
TEMP_EXHAUST_POINTS_Mistyped ==
    << <<50, 110>>, <<65, 140>>, <<75, 130>>, <<82, 220>>, <<90, 255>> >>

TEMP_EXHAUST_POINTS ==
    << <<50, 110>>, <<65, 140>>, <<75, 180>>, <<82, 220>>, <<90, 255>> >>

EXPLORE_EXHAUST_LEVELS == <<110, 130, 150, 170, 190, 210, 230, 255>>

-----------------------------------------------------------------------------
(* Arithmetic helpers.                                                     *)

Max(a, b) == IF a >= b THEN a ELSE b
Min(a, b) == IF a <= b THEN a ELSE b

\* Python's max() over the two-element lists get_gpu_stats returns.
MaxOf(s) == Max(s[1], s[2])

\* int(num / den) for den > 0: truncation toward zero.
Trunc(num, den) == IF num >= 0 THEN num \div den ELSE -((-num) \div den)

-----------------------------------------------------------------------------
(* Pure functions of FanController.                                        *)

RECURSIVE CurveSegment(_, _, _)
\* Mutant of CurveSegment: the interpolation fraction is measured from the
\* upper end of the segment, (t2 - temp) / (t2 - t1).
CurveSegment_SwappedEnds(temp, points, i) ==
    IF i > Len(points) - 1
    THEN points[Len(points)][2]
    ELSE LET t1 == points[i][1]
             p1 == points[i][2]
             t2 == points[i + 1][1]
             p2 == points[i + 1][2]
         IN  IF t1 <= temp /\ temp <= t2
             THEN IF t2 = t1
                  THEN p1
                  ELSE Trunc(p1 * (t2 - t1) + (t2 - temp) * (p2 - p1), t2 - t1)
             ELSE CurveSegment(temp, points, i + 1)

\* The segment search of get_temp_based_pwm from segment i on: the first
\* segment (points[i], points[i+1]) with t1 <= temp <= t2 decides; when no
\* segment matches, the fallback is the last point's PWM.  The source computes
\* int(p1 + ((temp - t1) / (t2 - t1)) * (p2 - p1)) in floating point; for PWM
\* values within [MIN_PWM, MAX_PWM] and segments up to 100 wide that equals the
\* exact quotient truncated toward zero, which is what is computed here.
CurveSegment(temp, points, i) ==
    IF i > Len(points) - 1
    THEN points[Len(points)][2]
    ELSE LET t1 == points[i][1]
             p1 == points[i][2]
             t2 == points[i + 1][1]
             p2 == points[i + 1][2]
         IN  IF t1 <= temp /\ temp <= t2
             THEN IF t2 = t1
                  THEN p1
                  ELSE Trunc(p1 * (t2 - t1) + (temp - t1) * (p2 - p1), t2 - t1)
             ELSE CurveSegment(temp, points, i + 1)

get_temp_based_pwm(temp, points) ==
    IF temp <= points[1][1]
    THEN points[1][2]
    ELSE IF temp >= points[Len(points)][1]
         THEN points[Len(points)][2]
         ELSE CurveSegment(temp, points, 1)

\* Mutant of get_temp_trend: the trend is taken over the whole history.
get_temp_trend_WholeHistory(history) ==
    IF Len(history) < 3
    THEN <<0, 1>>
    ELSE LET recent == history
         IN  <<recent[Len(recent)] - recent[1], Len(recent) - 1>>

\* get_temp_trend as the exact fraction <<numerator, denominator>>:
\* (recent[-1] - recent[0]) / (len(recent) - 1) over the last 3 samples, and
\* 0.0 (here 0/1) when the history holds fewer than 3.
get_temp_trend(history) ==
    IF Len(history) < 3
    THEN <<0, 1>>
    ELSE LET recent == SubSeq(history, Len(history) - 2, Len(history))
         IN  <<recent[Len(recent)] - recent[1], Len(recent) - 1>>

\* Mutant of find_optimal_pwm: only the first GPU's temperature is looked at
\* (temps[0] for max(temps)).
find_optimal_pwm_FirstGpuOnly(temps_, history, cur_intake, cur_exhaust) ==
    LET max_temp == temps_[1]
        trend == get_temp_trend(history)
        trend_boost == Min(TREND_BOOST_CAP, Trunc(trend[1] * TREND_GAIN, trend[2]))
    IN  IF max_temp >= EMERGENCY_TEMP
        THEN [intake |-> MAX_PWM, exhaust |-> MAX_PWM, driver |-> "emergency"]
        ELSE IF trend[1] > TREND_THRESHOLD * trend[2]
             THEN [intake |-> Min(MAX_PWM, cur_intake + trend_boost),
                   exhaust |-> Min(MAX_PWM, cur_exhaust + trend_boost),
                   driver |-> "trend"]
             ELSE [intake |-> get_temp_based_pwm(max_temp, TEMP_INTAKE_POINTS),
                   exhaust |-> get_temp_based_pwm(max_temp, TEMP_EXHAUST_POINTS),
                   driver |-> "temp"]

\* find_optimal_pwm: the (intake, exhaust, driver) triple.
find_optimal_pwm(temps_, history, cur_intake, cur_exhaust) ==
    LET max_temp == MaxOf(temps_)
        trend == get_temp_trend(history)
        \* min(30, int(temp_trend * 5))
        trend_boost == Min(TREND_BOOST_CAP, Trunc(trend[1] * TREND_GAIN, trend[2]))
    IN  IF max_temp >= EMERGENCY_TEMP
        THEN [intake |-> MAX_PWM, exhaust |-> MAX_PWM, driver |-> "emergency"]
        ELSE IF trend[1] > TREND_THRESHOLD * trend[2]
             THEN [intake |-> Min(MAX_PWM, cur_intake + trend_boost),
                   exhaust |-> Min(MAX_PWM, cur_exhaust + trend_boost),
                   driver |-> "trend"]
             ELSE [intake |-> get_temp_based_pwm(max_temp, TEMP_INTAKE_POINTS),
                   exhaust |-> get_temp_based_pwm(max_temp, TEMP_EXHAUST_POINTS),
                   driver |-> "temp"]

\* Mutant of get_poll_interval: the utilization is not looked at.
get_poll_interval_TempOnly(max_util, max_temp) ==
    IF max_temp >= CRITICAL_TEMP
    THEN POLL_INTERVAL_CRITICAL
    ELSE POLL_INTERVAL_NORMAL

get_poll_interval(max_util, max_temp) ==
    IF max_util >= CRITICAL_UTIL \/ max_temp >= CRITICAL_TEMP
    THEN POLL_INTERVAL_CRITICAL
    ELSE POLL_INTERVAL_NORMAL

\* Mutant of apply_rate_limit: the floor of 5 on the decrease is left out
\* (no max(max_decrease, 5)).
apply_rate_limit_NoFloor(target_pwm, current_pwm, interval, emergency) ==
    LET max_decrease == Trunc(MAX_PWM_CHANGE_PER_SEC * interval, MS_PER_SEC)
    IN  IF emergency
        THEN target_pwm
        ELSE IF target_pwm >= current_pwm
             THEN target_pwm
             ELSE IF target_pwm < current_pwm - max_decrease
                  THEN current_pwm - max_decrease
                  ELSE target_pwm

\* apply_rate_limit; interval in milliseconds, so
\* int(MAX_PWM_CHANGE_PER_SEC * poll_interval) is the truncated quotient below.
apply_rate_limit(target_pwm, current_pwm, interval, emergency) ==
    LET max_decrease ==
            Max(Trunc(MAX_PWM_CHANGE_PER_SEC * interval, MS_PER_SEC), MIN_DECREASE)
    IN  IF emergency
        THEN target_pwm
        ELSE IF target_pwm >= current_pwm
             THEN target_pwm
             ELSE IF target_pwm < current_pwm - max_decrease
                  THEN current_pwm - max_decrease
                  ELSE target_pwm

\* int(max(MIN_PWM, min(MAX_PWM, pwm))) of set_pwm.
ClampPwm(pwm) == Max(MIN_PWM, Min(MAX_PWM, pwm))

\* Mutant of DequeAppend: a full buffer gives up its newest sample.
DequeAppend_EvictsNewest(q, x) ==
    IF Len(q) < HISTORY_MAXLEN THEN Append(q, x) ELSE Append(SubSeq(q, 1, Len(q) - 1), x)

\* deque(maxlen=10).append
DequeAppend(q, x) ==
    IF Len(q) < HISTORY_MAXLEN THEN Append(q, x) ELSE Append(Tail(q), x)

TopIdx == Len(EXPLORE_EXHAUST_LEVELS) - 1

\* Mutant of explore_exhaust: a change of the load bucket is recorded but does
\* not restart the sweep.
explore_exhaust_IgnoresLoadChange(temps_, utils_, powers_, t, idx, start, bucket) ==
    LET max_temp == MaxOf(temps_)
        max_util == MaxOf(utils_)
        max_power == MaxOf(powers_)
        current_load_bucket == max_power \div LOAD_BUCKET_WATTS
        idx1 == idx
        start1 == start
        start2 == IF start1 = None THEN t ELSE start1[1]
        elapsed == t - start2
        idx2 == IF elapsed >= EXPLORE_HOLD_TIME
                THEN IF idx1 > 0 THEN idx1 - 1 ELSE TopIdx
                ELSE idx1
        start3 == IF elapsed >= EXPLORE_HOLD_TIME THEN t ELSE start2
    IN  IF max_temp >= EXPLORE_TEMP_CEILING
        THEN [exhaust |-> MAX_PWM, driver |-> "explore-retreat",
              idx |-> TopIdx, start |-> None, bucket |-> bucket]
        ELSE IF max_util < EXPLORE_UTIL_THRESHOLD
             THEN [exhaust |-> EXPLORE_EXHAUST_LEVELS[Len(EXPLORE_EXHAUST_LEVELS)],
                   driver |-> "explore-idle",
                   idx |-> idx1, start |-> start1,
                   bucket |-> Some(current_load_bucket)]
             ELSE [exhaust |-> EXPLORE_EXHAUST_LEVELS[idx2 + 1],
                   driver |-> "explore",
                   idx |-> idx2, start |-> Some(start3),
                   bucket |-> Some(current_load_bucket)]

\* Mutant of explore_exhaust: an elapsed dwell steps two levels down.
explore_exhaust_SkipsLevel(temps_, utils_, powers_, t, idx, start, bucket) ==
    LET max_temp == MaxOf(temps_)
        max_util == MaxOf(utils_)
        max_power == MaxOf(powers_)
        current_load_bucket == max_power \div LOAD_BUCKET_WATTS
        changed == bucket # None /\ Some(current_load_bucket) # bucket
        idx1 == IF changed THEN TopIdx ELSE idx
        start1 == IF changed THEN None ELSE start
        start2 == IF start1 = None THEN t ELSE start1[1]
        elapsed == t - start2
        idx2 == IF elapsed >= EXPLORE_HOLD_TIME
                THEN IF idx1 > 1 THEN idx1 - 2 ELSE TopIdx
                ELSE idx1
        start3 == IF elapsed >= EXPLORE_HOLD_TIME THEN t ELSE start2
    IN  IF max_temp >= EXPLORE_TEMP_CEILING
        THEN [exhaust |-> MAX_PWM, driver |-> "explore-retreat",
              idx |-> TopIdx, start |-> None, bucket |-> bucket]
        ELSE IF max_util < EXPLORE_UTIL_THRESHOLD
             THEN [exhaust |-> EXPLORE_EXHAUST_LEVELS[Len(EXPLORE_EXHAUST_LEVELS)],
                   driver |-> "explore-idle",
                   idx |-> idx1, start |-> start1,
                   bucket |-> Some(current_load_bucket)]
             ELSE [exhaust |-> EXPLORE_EXHAUST_LEVELS[idx2 + 1],
                   driver |-> "explore",
                   idx |-> idx2, start |-> Some(start3),
                   bucket |-> Some(current_load_bucket)]

\* Mutant of explore_exhaust: the retreat resets the sweep index but leaves
\* explore_start_time as it is.
explore_exhaust_KeepsTimer(temps_, utils_, powers_, t, idx, start, bucket) ==
    LET max_temp == MaxOf(temps_)
        max_util == MaxOf(utils_)
        max_power == MaxOf(powers_)
        current_load_bucket == max_power \div LOAD_BUCKET_WATTS
        changed == bucket # None /\ Some(current_load_bucket) # bucket
        idx1 == IF changed THEN TopIdx ELSE idx
        start1 == IF changed THEN None ELSE start
        start2 == IF start1 = None THEN t ELSE start1[1]
        elapsed == t - start2
        idx2 == IF elapsed >= EXPLORE_HOLD_TIME
                THEN IF idx1 > 0 THEN idx1 - 1 ELSE TopIdx
                ELSE idx1
        start3 == IF elapsed >= EXPLORE_HOLD_TIME THEN t ELSE start2
    IN  IF max_temp >= EXPLORE_TEMP_CEILING
        THEN [exhaust |-> MAX_PWM, driver |-> "explore-retreat",
              idx |-> TopIdx, start |-> start, bucket |-> bucket]
        ELSE IF max_util < EXPLORE_UTIL_THRESHOLD
             THEN [exhaust |-> EXPLORE_EXHAUST_LEVELS[Len(EXPLORE_EXHAUST_LEVELS)],
                   driver |-> "explore-idle",
                   idx |-> idx1, start |-> start1,
                   bucket |-> Some(current_load_bucket)]
             ELSE [exhaust |-> EXPLORE_EXHAUST_LEVELS[idx2 + 1],
                   driver |-> "explore",
                   idx |-> idx2, start |-> Some(start3),
                   bucket |-> Some(current_load_bucket)]

\* explore_exhaust: the returned (exhaust_pwm, driver) with the exploration
\* state it leaves behind.  t is the value time.time() returned.
explore_exhaust(temps_, utils_, powers_, t, idx, start, bucket) ==
    LET max_temp == MaxOf(temps_)
        max_util == MaxOf(utils_)
        max_power == MaxOf(powers_)
        current_load_bucket == max_power \div LOAD_BUCKET_WATTS
        changed == bucket # None /\ Some(current_load_bucket) # bucket
        idx1 == IF changed THEN TopIdx ELSE idx
        start1 == IF changed THEN None ELSE start
        start2 == IF start1 = None THEN t ELSE start1[1]
        elapsed == t - start2
        idx2 == IF elapsed >= EXPLORE_HOLD_TIME
                THEN IF idx1 > 0 THEN idx1 - 1 ELSE TopIdx
                ELSE idx1
        start3 == IF elapsed >= EXPLORE_HOLD_TIME THEN t ELSE start2
    IN  IF max_temp >= EXPLORE_TEMP_CEILING
        THEN [exhaust |-> MAX_PWM, driver |-> "explore-retreat",
              idx |-> TopIdx, start |-> None, bucket |-> bucket]
        ELSE IF max_util < EXPLORE_UTIL_THRESHOLD
             THEN [exhaust |-> EXPLORE_EXHAUST_LEVELS[Len(EXPLORE_EXHAUST_LEVELS)],
                   driver |-> "explore-idle",
                   idx |-> idx1, start |-> start1,
                   bucket |-> Some(current_load_bucket)]
             ELSE [exhaust |-> EXPLORE_EXHAUST_LEVELS[idx2 + 1],
                   driver |-> "explore",
                   idx |-> idx2, start |-> Some(start3),
                   bucket |-> Some(current_load_bucket)]

-----------------------------------------------------------------------------
(* Bounds of the model and the inputs drawn from the environment.          *)

\* iterations of the while-True loop that are explored
MaxTicks == 3

\* iterations (of warm-up and of the loop) in which an exception is raised
MaxFaults == 1

\* Sensor snapshots get_gpu_stats can return in the control loop: per GPU the
\* junction temperature, the utilization and the power.
\*   cool and below the utilization threshold of the exploration, drawing the
\*   power of the next; moderate and busy; hot (above the exploration ceiling
\*   and the fast-poll thresholds, below emergency); emergency on the second
\*   GPU.
Readings ==
    { [temps |-> <<45, 40>>, utils |-> <<30, 20>>, powers |-> <<110, 100>>],
      [temps |-> <<60, 58>>, utils |-> <<60, 40>>, powers |-> <<120, 100>>],
      [temps |-> <<86, 80>>, utils |-> <<95, 80>>, powers |-> <<180, 160>>],
      [temps |-> <<70, 95>>, utils |-> <<70, 99>>, powers |-> <<150, 190>>] }

\* Sensor snapshots during warm-up: the machine starts cool and idle.
WarmupReadings ==
    { [temps |-> <<45, 40>>, utils |-> <<0, 0>>, powers |-> <<20, 20>>] }

\* What the two PWM nodes hold when the process starts (left by the firmware).
InitialHwPwm == { <<60, 200>> }

\* Values time.time() can return on its next call: half a hold time or a
\* whole hold time after the last one (each at least the sleep in between).
\* Without exploration mode the clock is never read.
TimeInputs ==
    IF EXPLORE_MODE
    THEN {now + EXPLORE_HOLD_TIME \div 2, now + EXPLORE_HOLD_TIME}
    ELSE {now}

-----------------------------------------------------------------------------
(* The process: main(), FanController.__init__, FanController.run.         *)

\* The calls of an iteration of the while-True loop in which nothing raises,
\* in the order of lines 394-426 (apply_rate_limit stands for its two calls).
CallOrder ==
    <<"get_gpu_stats", "find_optimal_pwm", "apply_rate_limit">>
        \o (IF EXPLORE_MODE THEN <<"explore_exhaust">> ELSE <<>>)
        \o <<"set_pwm", "update_history", "log", "get_poll_interval">>

\* CallOrder up to the call named last.
RECURSIVE UpTo(_, _)
UpTo(order, last) ==
    IF order = <<>> \/ Head(order) = last
    THEN IF order = <<>> THEN <<>> ELSE <<last>>
    ELSE <<Head(order)>> \o UpTo(Tail(order), last)

\* The calls of an iteration that ends as `how`: an iteration that raises
\* ends with the call that raised.
TickSteps(how) ==
    UpTo(CallOrder,
         CASE how = "sensor error" -> "get_gpu_stats"
           [] how = "write error" -> "set_pwm"
           [] how = "log error" -> "log"
           [] OTHER -> "get_poll_interval")

\* The calls of a warm-up iteration (lines 381-388): it ends in the sleep of
\* the try block or in the sleep of the except block.
WarmupSteps(raised) ==
    (IF raised = "none"
     THEN <<"get_gpu_stats", "get_current_pwm", "update_history">>
     ELSE UpTo(<<"get_gpu_stats", "get_current_pwm">>, raised))
        \o <<"time.sleep(POLL_INTERVAL_NORMAL)">>

NoCall == [fn |-> "none"]

\* The twin: the fields and the poll_interval of a second run of the program
\* that is started without --explore on the same hardware and meets the same
\* sensor readings and the same exceptions, with the intake writes of its last
\* iteration.
TwinInit ==
    [current_intake_pwm |-> MIN_PWM,
     current_exhaust_pwm |-> EXHAUST_MIN_PWM,
     temp_history |-> <<>>,
     util_history |-> <<>>,
     pwm_history |-> <<>>,
     poll_interval |-> None,
     intake_writes |-> <<>>]

\* The twin's warm-up iteration: no PWM node has been written yet, so it reads
\* back what this run reads back.
TwinWarmup(r, last) ==
    [twin EXCEPT
        !.temp_history = DequeAppend(@, MaxOf(r.temps)),
        !.util_history = DequeAppend(@, MaxOf(r.utils)),
        !.pwm_history = DequeAppend(@, hw_intake_pwm),
        !.poll_interval = IF last THEN Some(POLL_INTERVAL_NORMAL) ELSE @]

\* The twin leaves warm-up by an iteration that raised.
TwinWarmupFail(last) ==
    [twin EXCEPT !.poll_interval = IF last THEN Some(POLL_INTERVAL_NORMAL) ELSE @]

\* Lines 394-409 in the twin: EXPLORE_MODE is false, the rate-limited values
\* are handed to set_pwm.
TwinDecide(r) ==
    LET opt == find_optimal_pwm(r.temps, twin.temp_history, twin.current_intake_pwm,
                                twin.current_exhaust_pwm)
        emergency == opt.driver = "emergency"
    IN  [intake_pwm |-> apply_rate_limit(opt.intake, twin.current_intake_pwm,
                                         twin.poll_interval[1], emergency),
         exhaust_pwm |-> apply_rate_limit(opt.exhaust, twin.current_exhaust_pwm,
                                          twin.poll_interval[1], emergency)]

\* The twin's iteration in which get_gpu_stats raises: it writes nothing.
TwinSensorError == [twin EXCEPT !.intake_writes = <<>>]

\* The twin's iteration on the reading r that ends as `how` does: "ok" (also
\* with a PermissionError in log), "log error", or the set_pwm write to the
\* node `how` names raises.
TwinTick(r, how) ==
    LET d == TwinDecide(r)
        written == how \in {"ok", "log error"}
    IN  [current_intake_pwm |->
            IF written THEN ClampPwm(d.intake_pwm) ELSE twin.current_intake_pwm,
         current_exhaust_pwm |->
            IF written THEN ClampPwm(d.exhaust_pwm) ELSE twin.current_exhaust_pwm,
         temp_history |->
            IF written THEN DequeAppend(twin.temp_history, MaxOf(r.temps))
            ELSE twin.temp_history,
         util_history |->
            IF written THEN DequeAppend(twin.util_history, MaxOf(r.utils))
            ELSE twin.util_history,
         pwm_history |->
            IF written THEN DequeAppend(twin.pwm_history, d.intake_pwm)
            ELSE twin.pwm_history,
         poll_interval |->
            IF how = "ok"
            THEN Some(get_poll_interval(MaxOf(r.utils), MaxOf(r.temps)))
            ELSE twin.poll_interval,
         intake_writes |->
            IF how = "intake" THEN <<>> ELSE <<ClampPwm(d.intake_pwm)>>]

\* Mutant of FieldsInit: current_intake_pwm starts at 0 instead of MIN_PWM.
FieldsInit_ZeroPwm ==
    /\ warmup_i = 0
    /\ ticks = 0
    /\ faults = 0
    /\ temp_history = <<>>
    /\ util_history = <<>>
    /\ pwm_history = <<>>
    /\ current_intake_pwm = 0
    /\ current_exhaust_pwm = EXHAUST_MIN_PWM
    /\ explore_exhaust_idx = TopIdx
    /\ explore_start_time = None
    /\ explore_load_bucket = None
    /\ now = 0
    /\ poll_interval = None
    /\ temps = None /\ utils = None /\ powers = None
    /\ target_intake = None /\ target_exhaust = None
    /\ intake_pwm = None /\ exhaust_pwm = None
    /\ driver = None
    /\ outcome = "not started"
    /\ pre = None
    /\ pwm_writes = <<>>
    /\ steps = <<>>
    /\ hw_intake_enable = "auto"
    /\ hw_exhaust_enable = "auto"
    /\ csv_rows = 0
    /\ csv_last = None
    /\ console = None
    /\ twin = TwinInit

\* The fields __init__ sets, and the locals of run() before their first
\* assignment (None).
FieldsInit ==
    /\ warmup_i = 0
    /\ ticks = 0
    /\ faults = 0
    /\ temp_history = <<>>
    /\ util_history = <<>>
    /\ pwm_history = <<>>
    /\ current_intake_pwm = MIN_PWM
    /\ current_exhaust_pwm = EXHAUST_MIN_PWM
    /\ explore_exhaust_idx = TopIdx
    /\ explore_start_time = None
    /\ explore_load_bucket = None
    /\ now = 0
    /\ poll_interval = None
    /\ temps = None /\ utils = None /\ powers = None
    /\ target_intake = None /\ target_exhaust = None
    /\ intake_pwm = None /\ exhaust_pwm = None
    /\ driver = None
    /\ outcome = "not started"
    /\ pre = None
    /\ pwm_writes = <<>>
    /\ steps = <<>>
    /\ hw_intake_enable = "auto"
    /\ hw_exhaust_enable = "auto"
    /\ csv_rows = 0
    /\ csv_last = None
    /\ console = None
    /\ twin = TwinInit

Init ==
    /\ pc = "main"
    /\ EXPLORE_MODE \in BOOLEAN
    /\ FieldsInit
    /\ \E hw \in InitialHwPwm : hw_intake_pwm = hw[1] /\ hw_exhaust_pwm = hw[2]
    /\ call = NoCall

\* main(): FanController() succeeds.  The log header is written when LOG_FILE
\* does not exist and can be created; a PermissionError is only warned about.
Construct ==
    /\ pc = "main"
    /\ \E header \in {"exists or created", "permission"} :
          outcome' = IF header = "permission" THEN "header warning" ELSE "constructed"
    /\ pc' = "run"
    /\ UNCHANGED <<EXPLORE_MODE, warmup_i, ticks, faults, histVars, fanVars,
                   exploreVars, poll_interval, localVars, hwVars, logVars, tickVars,
                   twin, call>>

\* Mutant of ConstructFail: the exception of __init__ is passed over and
\* main() goes on to run().
ConstructFail_Continues ==
    /\ pc = "main"
    /\ \E why \in {"nct6798 not found", "log header OSError"} : outcome' = why
    /\ pc' = "run"
    /\ UNCHANGED <<EXPLORE_MODE, warmup_i, ticks, faults, histVars, fanVars, exploreVars,
                   poll_interval, localVars, hwVars, logVars, tickVars, twin, call>>

\* main(): FanController() raises: find_hwmon_path finds no nct6798 node
\* (RuntimeError), or creating the log header fails with an OSError other
\* than PermissionError.  Nothing catches it: the process ends.
ConstructFail ==
    /\ pc = "main"
    /\ \E why \in {"nct6798 not found", "log header OSError"} : outcome' = why
    /\ pc' = "exit"
    /\ UNCHANGED <<EXPLORE_MODE, warmup_i, ticks, faults, histVars, fanVars, exploreVars,
                   poll_interval, localVars, hwVars, logVars, tickVars, twin, call>>

\* run(): enable_manual_mode writes "1" to both enable nodes.
EnableManualMode ==
    /\ pc = "run"
    /\ hw_intake_enable' = "1"
    /\ hw_exhaust_enable' = "1"
    /\ pc' = "warmup"
    /\ UNCHANGED <<EXPLORE_MODE, warmup_i, ticks, faults, histVars, fanVars, exploreVars,
                   poll_interval, localVars, outcome, hw_intake_pwm, hw_exhaust_pwm,
                   logVars, tickVars, twin, call>>

\* run(): a write of enable_manual_mode raises; it is outside every try, so
\* the process ends.  The intake node is written first.
EnableManualModeFail ==
    /\ pc = "run"
    /\ \E failing \in {"intake", "exhaust"} :
          /\ hw_intake_enable' = IF failing = "exhaust" THEN "1" ELSE hw_intake_enable
          /\ outcome' = "enable write error"
    /\ pc' = "exit"
    /\ UNCHANGED <<EXPLORE_MODE, warmup_i, ticks, faults, histVars, fanVars, exploreVars,
                   poll_interval, localVars, hw_intake_pwm, hw_exhaust_pwm,
                   hw_exhaust_enable, logVars, tickVars, twin, call>>

\* Mutant of update_history: the sample is appended twice.
update_history_Twice(max_temp, max_util, pwm) ==
    /\ temp_history' = DequeAppend(DequeAppend(temp_history, max_temp), max_temp)
    /\ util_history' = DequeAppend(DequeAppend(util_history, max_util), max_util)
    /\ pwm_history' = DequeAppend(DequeAppend(pwm_history, pwm), pwm)

\* update_history
update_history(max_temp, max_util, pwm) ==
    /\ temp_history' = DequeAppend(temp_history, max_temp)
    /\ util_history' = DequeAppend(util_history, max_util)
    /\ pwm_history' = DequeAppend(pwm_history, pwm)

\* Leaving the warm-up loop after its last iteration: poll_interval is set
\* and the while-True loop is entered.
WarmupAdvance ==
    /\ warmup_i' = warmup_i + 1
    /\ pc' = IF warmup_i + 1 = WARMUP_ITERATIONS THEN "loop" ELSE "warmup"
    /\ poll_interval' =
          IF warmup_i + 1 = WARMUP_ITERATIONS
          THEN Some(POLL_INTERVAL_NORMAL)
          ELSE poll_interval

\* One warm-up iteration without an exception: the sensors are read, the PWM
\* nodes are read back, the sample is appended, the loop sleeps.
Warmup ==
    /\ pc = "warmup"
    /\ \E r \in WarmupReadings :
          /\ temps' = r.temps /\ utils' = r.utils /\ powers' = r.powers
          /\ intake_pwm' = Some(hw_intake_pwm)
          /\ update_history(MaxOf(r.temps), MaxOf(r.utils), hw_intake_pwm)
          /\ twin' = TwinWarmup(r, warmup_i + 1 = WARMUP_ITERATIONS)
    /\ WarmupAdvance
    /\ outcome' = "warmup ok"
    /\ steps' = WarmupSteps("none")
    /\ UNCHANGED <<EXPLORE_MODE, ticks, faults, fanVars, exploreVars, target_intake,
                   target_exhaust, exhaust_pwm, driver, hwVars, logVars, pre, pwm_writes,
                   call>>

\* Mutant of WarmupExcept: the exception of a warm-up iteration ends run().
WarmupExcept_Aborts ==
    /\ pc = "warmup"
    /\ \/ /\ UNCHANGED <<temps, utils, powers>>
          /\ steps' = WarmupSteps("get_gpu_stats")
       \/ \E r \in WarmupReadings :
             /\ temps' = r.temps /\ utils' = r.utils /\ powers' = r.powers
             /\ steps' = WarmupSteps("get_current_pwm")
    /\ pc' = "exit"
    /\ outcome' = "warmup warning"
    /\ UNCHANGED <<EXPLORE_MODE, warmup_i, poll_interval, twin, ticks, histVars, fanVars,
                   exploreVars, target_intake, target_exhaust, intake_pwm, exhaust_pwm,
                   driver, hwVars, logVars, pre, pwm_writes, call>>

\* One warm-up iteration with an exception: get_gpu_stats raises (no local is
\* assigned), or get_current_pwm raises after the sensors were read.  The
\* warning is printed and the loop sleeps.
WarmupExcept ==
    /\ pc = "warmup"
    /\ \/ /\ UNCHANGED <<temps, utils, powers>>
          /\ steps' = WarmupSteps("get_gpu_stats")
       \/ \E r \in WarmupReadings :
             /\ temps' = r.temps /\ utils' = r.utils /\ powers' = r.powers
             /\ steps' = WarmupSteps("get_current_pwm")
    /\ WarmupAdvance
    /\ outcome' = "warmup warning"
    /\ twin' = TwinWarmupFail(warmup_i + 1 = WARMUP_ITERATIONS)
    /\ UNCHANGED <<EXPLORE_MODE, ticks, histVars, fanVars, exploreVars, target_intake,
                   target_exhaust, intake_pwm, exhaust_pwm, driver, hwVars, logVars,
                   pre, pwm_writes, call>>

\* A failing warm-up iteration, counted against the budget of failures of a
\* run.
WarmupFail ==
    /\ faults < MaxFaults
    /\ faults' = faults + 1
    /\ WarmupExcept

\* A failing warm-up iteration outside that budget: any of the iterations of
\* the warm-up may fail, all of them included.
WarmupRaises ==
    /\ WarmupExcept
    /\ UNCHANGED faults

-----------------------------------------------------------------------------
(* One iteration of the while-True loop of run().                          *)

\* Mutant of Decide: in exploration mode the level of the sweep is handed to
\* set_pwm for the intake as well.
Decide_ExploreDrivesIntake(r, t) ==
    LET opt == find_optimal_pwm(r.temps, temp_history, current_intake_pwm,
                                current_exhaust_pwm)
        emergency == opt.driver = "emergency"
        limited_intake == apply_rate_limit(opt.intake, current_intake_pwm,
                                           poll_interval[1], emergency)
        limited_exhaust == apply_rate_limit(opt.exhaust, current_exhaust_pwm,
                                            poll_interval[1], emergency)
        ex == explore_exhaust(r.temps, r.utils, r.powers, t, explore_exhaust_idx,
                              explore_start_time, explore_load_bucket)
    IN  [target_intake |-> opt.intake,
         target_exhaust |-> opt.exhaust,
         intake_pwm |-> IF EXPLORE_MODE THEN ex.exhaust ELSE limited_intake,
         exhaust_pwm |-> IF EXPLORE_MODE THEN ex.exhaust ELSE limited_exhaust,
         driver |-> IF EXPLORE_MODE THEN ex.driver ELSE opt.driver,
         idx |-> IF EXPLORE_MODE THEN ex.idx ELSE explore_exhaust_idx,
         start |-> IF EXPLORE_MODE THEN ex.start ELSE explore_start_time,
         bucket |-> IF EXPLORE_MODE THEN ex.bucket ELSE explore_load_bucket,
         now |-> IF EXPLORE_MODE THEN t ELSE now]

\* Lines 394-414: from the sensor read r to the values handed to set_pwm.
\* t is what time.time() returns inside explore_exhaust.
Decide(r, t) ==
    LET opt == find_optimal_pwm(r.temps, temp_history, current_intake_pwm,
                                current_exhaust_pwm)
        emergency == opt.driver = "emergency"
        limited_intake == apply_rate_limit(opt.intake, current_intake_pwm,
                                           poll_interval[1], emergency)
        limited_exhaust == apply_rate_limit(opt.exhaust, current_exhaust_pwm,
                                            poll_interval[1], emergency)
        ex == explore_exhaust(r.temps, r.utils, r.powers, t, explore_exhaust_idx,
                              explore_start_time, explore_load_bucket)
    IN  [target_intake |-> opt.intake,
         target_exhaust |-> opt.exhaust,
         intake_pwm |-> limited_intake,
         exhaust_pwm |-> IF EXPLORE_MODE THEN ex.exhaust ELSE limited_exhaust,
         driver |-> IF EXPLORE_MODE THEN ex.driver ELSE opt.driver,
         idx |-> IF EXPLORE_MODE THEN ex.idx ELSE explore_exhaust_idx,
         start |-> IF EXPLORE_MODE THEN ex.start ELSE explore_start_time,
         bucket |-> IF EXPLORE_MODE THEN ex.bucket ELSE explore_load_bucket,
         now |-> IF EXPLORE_MODE THEN t ELSE now]

\* The assignments every iteration makes once get_gpu_stats has returned r,
\* up to the call of set_pwm.
Decided(r, d) ==
    /\ temps' = r.temps /\ utils' = r.utils /\ powers' = r.powers
    /\ target_intake' = Some(d.target_intake)
    /\ target_exhaust' = Some(d.target_exhaust)
    /\ intake_pwm' = Some(d.intake_pwm)
    /\ exhaust_pwm' = Some(d.exhaust_pwm)
    /\ driver' = Some(d.driver)
    /\ explore_exhaust_idx' = d.idx
    /\ explore_start_time' = d.start
    /\ explore_load_bucket' = d.bucket
    /\ now' = d.now

\* set_pwm without an exception: both nodes are written with the clamped
\* values and both fields record them.
set_pwm(intake, exhaust) ==
    /\ hw_intake_pwm' = ClampPwm(intake)
    /\ hw_exhaust_pwm' = ClampPwm(exhaust)
    /\ current_intake_pwm' = ClampPwm(intake)
    /\ current_exhaust_pwm' = ClampPwm(exhaust)

\* The row log() appends to LOG_FILE and the line it prints.
CsvRow(r, intake, exhaust) ==
    [temps |-> r.temps, utils |-> r.utils, powers |-> r.powers,
     max_temp |-> MaxOf(r.temps), max_util |-> MaxOf(r.utils),
     max_power |-> MaxOf(r.powers), intake_pwm |-> intake, exhaust_pwm |-> exhaust]

ConsoleLine(r, intake, exhaust, drv) ==
    [temps |-> r.temps, utils |-> r.utils, powers |-> r.powers,
     intake_pwm |-> intake, exhaust_pwm |-> exhaust, driver |-> drv]

\* What an iteration finds when it starts.
Snapshot ==
    [current_intake_pwm |-> current_intake_pwm,
     current_exhaust_pwm |-> current_exhaust_pwm,
     explore_exhaust_idx |-> explore_exhaust_idx,
     explore_start_time |-> explore_start_time,
     explore_load_bucket |-> explore_load_bucket,
     poll_interval |-> poll_interval[1]]

\* The two writes of a set_pwm call that completes.
BothWrites(intake, exhaust) ==
    << <<"pwm3", ClampPwm(intake)>>, <<"pwm1", ClampPwm(exhaust)>> >>

\* An iteration in which nothing raises.
TickOk ==
    /\ pc = "loop"
    /\ ticks < MaxTicks
    /\ \E r \in Readings, t \in TimeInputs :
          LET d == Decide(r, t) IN
          /\ Decided(r, d)
          /\ set_pwm(d.intake_pwm, d.exhaust_pwm)
          /\ pwm_writes' = BothWrites(d.intake_pwm, d.exhaust_pwm)
          /\ update_history(MaxOf(r.temps), MaxOf(r.utils), d.intake_pwm)
          /\ csv_rows' = csv_rows + 1
          /\ csv_last' =
                Some(CsvRow(r, ClampPwm(d.intake_pwm), ClampPwm(d.exhaust_pwm)))
          /\ console' = Some(ConsoleLine(r, ClampPwm(d.intake_pwm),
                                         ClampPwm(d.exhaust_pwm), d.driver))
          /\ poll_interval' = Some(get_poll_interval(MaxOf(r.utils), MaxOf(r.temps)))
          /\ twin' = TwinTick(r, "ok")
    /\ outcome' = "ok"
    /\ pre' = Some(Snapshot)
    /\ steps' = TickSteps(outcome')
    /\ pc' = "sleep"
    /\ ticks' = ticks + 1
    /\ UNCHANGED <<EXPLORE_MODE, warmup_i, faults, hw_intake_enable,
                   hw_exhaust_enable, call>>

\* Mutant of TickSensorError: the handler fails safe and drives both fans to
\* MAX_PWM when the sensors cannot be read.
TickSensorError_FailSafe ==
    /\ pc = "loop"
    /\ ticks < MaxTicks
    /\ faults < MaxFaults
    /\ faults' = faults + 1
    /\ outcome' = "sensor error"
    /\ pre' = Some(Snapshot)
    /\ steps' = TickSteps(outcome')
    /\ set_pwm(MAX_PWM, MAX_PWM)
    /\ pwm_writes' = BothWrites(MAX_PWM, MAX_PWM)
    /\ pc' = "sleep"
    /\ ticks' = ticks + 1
    /\ twin' = TwinSensorError
    /\ UNCHANGED <<EXPLORE_MODE, warmup_i, histVars, exploreVars, poll_interval,
                   localVars, hw_intake_enable, hw_exhaust_enable, logVars, call>>

\* TickSensorError continuing to the next read without the sleep of line 431.
TickSensorError_NoSleep ==
    /\ pc = "loop"
    /\ ticks < MaxTicks
    /\ faults < MaxFaults
    /\ faults' = faults + 1
    /\ outcome' = "sensor error"
    /\ pre' = Some(Snapshot)
    /\ steps' = TickSteps(outcome')
    /\ pwm_writes' = <<>>
    /\ pc' = "loop"
    /\ ticks' = ticks + 1
    /\ twin' = TwinSensorError
    /\ UNCHANGED <<EXPLORE_MODE, warmup_i, histVars, fanVars, exploreVars,
                   poll_interval, localVars, hwVars, logVars, call>>

\* get_gpu_stats raises (a node cannot be read or parsed): the except clause
\* prints the error; nothing was assigned.
TickSensorError ==
    /\ pc = "loop"
    /\ ticks < MaxTicks
    /\ faults < MaxFaults
    /\ faults' = faults + 1
    /\ outcome' = "sensor error"
    /\ pre' = Some(Snapshot)
    /\ steps' = TickSteps(outcome')
    /\ pwm_writes' = <<>>
    /\ pc' = "sleep"
    /\ ticks' = ticks + 1
    /\ twin' = TwinSensorError
    /\ UNCHANGED <<EXPLORE_MODE, warmup_i, histVars, fanVars, exploreVars,
                   poll_interval, localVars, hwVars, logVars, call>>

\* Mutant of TickWriteError: the except clause does not catch the OSError of
\* the failed write, which ends the process.
TickWriteError_Uncaught ==
    /\ pc = "loop"
    /\ ticks < MaxTicks
    /\ faults < MaxFaults
    /\ faults' = faults + 1
    /\ \E r \in Readings, t \in TimeInputs, failing \in {"intake", "exhaust"} :
          LET d == Decide(r, t) IN
          /\ Decided(r, d)
          /\ hw_intake_pwm' =
                IF failing = "exhaust" THEN ClampPwm(d.intake_pwm) ELSE hw_intake_pwm
          /\ pwm_writes' =
                IF failing = "exhaust"
                THEN << <<"pwm3", ClampPwm(d.intake_pwm)>> >>
                ELSE <<>>
          /\ twin' = TwinTick(r, failing)
    /\ outcome' = "write error"
    /\ pre' = Some(Snapshot)
    /\ steps' = TickSteps(outcome')
    /\ pc' = "exit"
    /\ ticks' = ticks + 1
    /\ UNCHANGED <<EXPLORE_MODE, warmup_i, histVars, fanVars, poll_interval,
                   hw_exhaust_pwm, hw_intake_enable, hw_exhaust_enable, logVars, call>>

\* Mutant of TickWriteError: set_pwm assigns the two fields before it writes
\* the nodes.
TickWriteError_RecordsFields ==
    /\ pc = "loop"
    /\ ticks < MaxTicks
    /\ faults < MaxFaults
    /\ faults' = faults + 1
    /\ \E r \in Readings, t \in TimeInputs, failing \in {"intake", "exhaust"} :
          LET d == Decide(r, t) IN
          /\ Decided(r, d)
          /\ hw_intake_pwm' =
                IF failing = "exhaust" THEN ClampPwm(d.intake_pwm) ELSE hw_intake_pwm
          /\ pwm_writes' =
                IF failing = "exhaust"
                THEN << <<"pwm3", ClampPwm(d.intake_pwm)>> >>
                ELSE <<>>
          /\ twin' = TwinTick(r, failing)
          /\ current_intake_pwm' = ClampPwm(d.intake_pwm)
          /\ current_exhaust_pwm' = ClampPwm(d.exhaust_pwm)
    /\ outcome' = "write error"
    /\ pre' = Some(Snapshot)
    /\ steps' = TickSteps(outcome')
    /\ pc' = "sleep"
    /\ ticks' = ticks + 1
    /\ UNCHANGED <<EXPLORE_MODE, warmup_i, histVars, poll_interval,
                   hw_exhaust_pwm, hw_intake_enable, hw_exhaust_enable, logVars, call>>

\* set_pwm raises on one of its two writes.  The intake node is written
\* first; the fields are assigned only after both writes.
TickWriteError ==
    /\ pc = "loop"
    /\ ticks < MaxTicks
    /\ faults < MaxFaults
    /\ faults' = faults + 1
    /\ \E r \in Readings, t \in TimeInputs, failing \in {"intake", "exhaust"} :
          LET d == Decide(r, t) IN
          /\ Decided(r, d)
          /\ hw_intake_pwm' =
                IF failing = "exhaust" THEN ClampPwm(d.intake_pwm) ELSE hw_intake_pwm
          /\ pwm_writes' =
                IF failing = "exhaust"
                THEN << <<"pwm3", ClampPwm(d.intake_pwm)>> >>
                ELSE <<>>
          /\ twin' = TwinTick(r, failing)
    /\ outcome' = "write error"
    /\ pre' = Some(Snapshot)
    /\ steps' = TickSteps(outcome')
    /\ pc' = "sleep"
    /\ ticks' = ticks + 1
    /\ UNCHANGED <<EXPLORE_MODE, warmup_i, histVars, fanVars, poll_interval,
                   hw_exhaust_pwm, hw_intake_enable, hw_exhaust_enable, logVars, call>>

\* Mutant of TickLogPermissionError: log() does not pass over the
\* PermissionError, so nothing is printed and poll_interval is not recomputed.
TickLogPermissionError_Propagates ==
    /\ pc = "loop"
    /\ ticks < MaxTicks
    /\ faults < MaxFaults
    /\ faults' = faults + 1
    /\ \E r \in Readings, t \in TimeInputs :
          LET d == Decide(r, t) IN
          /\ Decided(r, d)
          /\ set_pwm(d.intake_pwm, d.exhaust_pwm)
          /\ pwm_writes' = BothWrites(d.intake_pwm, d.exhaust_pwm)
          /\ update_history(MaxOf(r.temps), MaxOf(r.utils), d.intake_pwm)
          /\ twin' = TwinTick(r, "ok")
    /\ outcome' = "ok"
    /\ pre' = Some(Snapshot)
    /\ steps' = TickSteps(outcome')
    /\ pc' = "sleep"
    /\ ticks' = ticks + 1
    /\ UNCHANGED <<EXPLORE_MODE, warmup_i, hw_intake_enable, hw_exhaust_enable,
                   csv_rows, csv_last, console, poll_interval, call>>

\* log() cannot append to LOG_FILE and gets a PermissionError: it is passed
\* over, the line is printed and the iteration completes.
TickLogPermissionError ==
    /\ pc = "loop"
    /\ ticks < MaxTicks
    /\ faults < MaxFaults
    /\ faults' = faults + 1
    /\ \E r \in Readings, t \in TimeInputs :
          LET d == Decide(r, t) IN
          /\ Decided(r, d)
          /\ set_pwm(d.intake_pwm, d.exhaust_pwm)
          /\ pwm_writes' = BothWrites(d.intake_pwm, d.exhaust_pwm)
          /\ update_history(MaxOf(r.temps), MaxOf(r.utils), d.intake_pwm)
          /\ console' = Some(ConsoleLine(r, ClampPwm(d.intake_pwm),
                                         ClampPwm(d.exhaust_pwm), d.driver))
          /\ poll_interval' = Some(get_poll_interval(MaxOf(r.utils), MaxOf(r.temps)))
          /\ twin' = TwinTick(r, "ok")
    /\ outcome' = "ok"
    /\ pre' = Some(Snapshot)
    /\ steps' = TickSteps(outcome')
    /\ pc' = "sleep"
    /\ ticks' = ticks + 1
    /\ UNCHANGED <<EXPLORE_MODE, warmup_i, hw_intake_enable, hw_exhaust_enable,
                   csv_rows, csv_last, call>>

\* log() raises another OSError (read-only or full filesystem, missing
\* directory): the except clause of run() catches it after the fans were set
\* and the history updated; nothing is printed by log() and poll_interval is
\* not recomputed.
TickLogError ==
    /\ pc = "loop"
    /\ ticks < MaxTicks
    /\ faults < MaxFaults
    /\ faults' = faults + 1
    /\ \E r \in Readings, t \in TimeInputs :
          LET d == Decide(r, t) IN
          /\ Decided(r, d)
          /\ set_pwm(d.intake_pwm, d.exhaust_pwm)
          /\ pwm_writes' = BothWrites(d.intake_pwm, d.exhaust_pwm)
          /\ update_history(MaxOf(r.temps), MaxOf(r.utils), d.intake_pwm)
          /\ twin' = TwinTick(r, "log error")
    /\ outcome' = "log error"
    /\ pre' = Some(Snapshot)
    /\ steps' = TickSteps(outcome')
    /\ pc' = "sleep"
    /\ ticks' = ticks + 1
    /\ UNCHANGED <<EXPLORE_MODE, warmup_i, poll_interval, hw_intake_enable,
                   hw_exhaust_enable, logVars, call>>

\* time.sleep(poll_interval) at the end of the iteration returns.
Sleep ==
    /\ pc = "sleep"
    /\ pc' = "loop"
    /\ steps' = Append(steps, "time.sleep")
    /\ UNCHANGED <<EXPLORE_MODE, warmup_i, ticks, faults, histVars, fanVars, exploreVars,
                   poll_interval, localVars, outcome, hwVars, logVars, pre, pwm_writes,
                   twin, call>>

Next ==
    \/ Construct
    \/ ConstructFail
    \/ EnableManualMode
    \/ EnableManualModeFail
    \/ Warmup
    \/ WarmupFail
    \/ TickOk
    \/ TickSensorError
    \/ TickWriteError
    \/ TickLogPermissionError
    \/ TickLogError
    \/ Sleep

Spec == Init /\ [][Next]_vars

\* time.sleep returns, so a sleeping loop goes on.
FairSpec == Spec /\ WF_vars(Sleep)

-----------------------------------------------------------------------------
(* The pure functions on their own: the inputs are drawn in the initial    *)
(* state, one step applies the function and records what it returns.       *)

\* distance between the sampled PWM arguments of apply_rate_limit
PwmStep == 3

\* largest driving value a curve is evaluated at
MaxCurveTemp == 100

PwmSamples ==
    {MIN_PWM + k * PwmStep : k \in 0 .. ((MAX_PWM - MIN_PWM) \div PwmStep)}
        \cup {MAX_PWM}

\* poll intervals handed to apply_rate_limit, in milliseconds: the two of the
\* control loop and longer ones (1.0 s is the documented scenario).
RateIntervals == {50, 100, 400, 1000, 1500}

\* Curves handed to get_temp_based_pwm besides the two configured ones: the
\* utilization curve of the documented scenario, and curves with a degenerate
\* segment (two points on one driving value) in the middle, at the start and
\* at the end.
SCENARIO_POINTS ==
    << <<0, 110>>, <<10, 122>>, <<20, 126>>, <<30, 189>>, <<100, 225>> >>
DEGENERATE_MID_POINTS == << <<50, 110>>, <<60, 150>>, <<60, 200>>, <<90, 255>> >>
DEGENERATE_FIRST_POINTS == << <<50, 110>>, <<50, 150>>, <<90, 255>> >>
DEGENERATE_LAST_POINTS == << <<50, 110>>, <<90, 240>>, <<90, 255>> >>

ConfiguredCurves == {TEMP_INTAKE_POINTS, TEMP_EXHAUST_POINTS}

Curves ==
    ConfiguredCurves \cup
        {SCENARIO_POINTS, DEGENERATE_MID_POINTS, DEGENERATE_FIRST_POINTS,
         DEGENERATE_LAST_POINTS}

\* The process is not started: only `call` changes.
HarnessInit ==
    /\ pc = "harness"
    /\ EXPLORE_MODE = FALSE
    /\ FieldsInit
    /\ \E hw \in InitialHwPwm : hw_intake_pwm = hw[1] /\ hw_exhaust_pwm = hw[2]

HarnessUnchanged ==
    UNCHANGED <<progVars, histVars, fanVars, exploreVars, poll_interval, localVars,
                outcome, tickVars, twin, hwVars, logVars>>

InitRate ==
    /\ HarnessInit
    /\ \E target \in PwmSamples, current \in PwmSamples, interval \in RateIntervals,
          emergency \in BOOLEAN :
          call = [fn |-> "apply_rate_limit", target_pwm |-> target,
                  current_pwm |-> current, poll_interval |-> interval,
                  emergency |-> emergency, result |-> None]

ApplyRateLimit ==
    /\ call.fn = "apply_rate_limit"
    /\ call.result = None
    /\ call' = [call EXCEPT !.result =
                    Some(apply_rate_limit(call.target_pwm, call.current_pwm,
                                          call.poll_interval, call.emergency))]
    /\ HarnessUnchanged

NextRate == ApplyRateLimit

SpecRate == InitRate /\ [][NextRate]_vars

\* get_temp_based_pwm is applied to two driving values x1 <= x2 of one curve.
InitCurve ==
    /\ HarnessInit
    /\ \E points \in Curves, x1 \in 0 .. MaxCurveTemp, x2 \in 0 .. MaxCurveTemp :
          /\ x1 <= x2
          /\ call = [fn |-> "get_temp_based_pwm", points |-> points,
                     x1 |-> x1, x2 |-> x2, result1 |-> None, result2 |-> None]

GetTempBasedPwm ==
    /\ call.fn = "get_temp_based_pwm"
    /\ call.result1 = None
    /\ call' = [call EXCEPT
                    !.result1 = Some(get_temp_based_pwm(call.x1, call.points)),
                    !.result2 = Some(get_temp_based_pwm(call.x2, call.points))]
    /\ HarnessUnchanged

NextCurve == GetTempBasedPwm

SpecCurve == InitCurve /\ [][NextCurve]_vars

\* Targets of the decision over a run of consecutive non-emergency
\* iterations: the curve asks for the minimum, for the maximum, or for a value
\* in between.
RampTargets == {MIN_PWM, 200, MAX_PWM}

\* A run of consecutive iterations starts with a fan at MAX_PWM or at 200.
InitRamp ==
    /\ HarnessInit
    /\ \E start \in {200, MAX_PWM} :
          call = [fn |-> "ramp", start_pwm |-> start, current_pwm |-> start,
                  elapsed |-> 0, iterations |-> 0]

\* One non-emergency iteration of the run for one fan: the target is rate
\* limited against the recorded PWM with the poll interval the iteration
\* started with (lines 407-408), set_pwm records the result (lines 178-179),
\* and the loop sleeps for that interval.  The run is followed for one second.
RampTick ==
    /\ call.fn = "ramp"
    /\ \E target \in RampTargets,
          interval \in {POLL_INTERVAL_CRITICAL, POLL_INTERVAL_NORMAL} :
          /\ call.elapsed + interval <= MS_PER_SEC
          /\ call' = [call EXCEPT
                          !.current_pwm =
                              ClampPwm(apply_rate_limit(target, call.current_pwm,
                                                        interval, FALSE)),
                          !.elapsed = call.elapsed + interval,
                          !.iterations = call.iterations + 1]
    /\ HarnessUnchanged

NextRamp == RampTick

SpecRamp == InitRamp /\ [][NextRamp]_vars

\* longest history handed to find_optimal_pwm
MaxHistory == 4

\* Temperatures of the histories handed to find_optimal_pwm: rises of 10, 11
\* and 12 degrees over three samples, and falls.
HistoryTemps == {50, 60, 61, 62}

RECURSIVE Histories(_)
Histories(n) ==
    IF n = 0
    THEN {<<>>}
    ELSE Histories(n - 1) \cup
            {Append(h, t) : h \in {g \in Histories(n - 1) : Len(g) = n - 1},
                            t \in HistoryTemps}

\* Recorded fan PWMs find_optimal_pwm is called with: the boost fits below
\* MAX_PWM, reaches it, or is cut by it.
TrendPwmSamples == {MIN_PWM, EXHAUST_MIN_PWM, 225, 229, MAX_PWM}

\* find_optimal_pwm is applied to a reading, a history and two recorded PWMs.
InitOptimal ==
    /\ HarnessInit
    /\ \E r \in Readings, history \in Histories(MaxHistory),
          cur_intake \in TrendPwmSamples, cur_exhaust \in TrendPwmSamples :
          call = [fn |-> "find_optimal_pwm", temps |-> r.temps, history |-> history,
                  cur_intake |-> cur_intake, cur_exhaust |-> cur_exhaust,
                  result |-> None]

FindOptimalPwm ==
    /\ call.fn = "find_optimal_pwm"
    /\ call.result = None
    /\ call' = [call EXCEPT !.result =
                    Some(find_optimal_pwm(call.temps, call.history, call.cur_intake,
                                          call.cur_exhaust))]
    /\ HarnessUnchanged

NextOptimal == FindOptimalPwm

SpecOptimal == InitOptimal /\ [][NextOptimal]_vars

-----------------------------------------------------------------------------
(* The loop in the middle of an exhaust sweep.  The initial states are the  *)
(* states a run with --explore is in after a long steady load (the same     *)
(* reading on every iteration, so the histories are full and the intake has *)
(* settled on its curve value) at the moment the sweep has stepped to one   *)
(* of its levels; from there the iterations of run() go on as in Spec.      *)

\* The steady reading: 60 degrees, busy, at one of two power levels (load
\* buckets 2 and 3).
SteadyReadings ==
    { [temps |-> <<60, 58>>, utils |-> <<60, 40>>, powers |-> <<120, 100>>],
      [temps |-> <<60, 58>>, utils |-> <<60, 40>>, powers |-> <<160, 140>>] }

\* n copies of x, a history that holds one value only.
Repeat(x, n) == [i \in 1 .. n |-> x]

\* The loop top after the iteration that stepped the sweep to level idx under
\* the steady reading r.
SweepState(r, idx) ==
    LET intake == get_temp_based_pwm(MaxOf(r.temps), TEMP_INTAKE_POINTS)
        target_ex == get_temp_based_pwm(MaxOf(r.temps), TEMP_EXHAUST_POINTS)
        exhaust == EXPLORE_EXHAUST_LEVELS[idx + 1]
        prev == IF idx = TopIdx THEN 0 ELSE idx + 1
        bucket == Some(MaxOf(r.powers) \div LOAD_BUCKET_WATTS)
    IN  /\ pc = "loop"
        /\ EXPLORE_MODE = TRUE
        /\ warmup_i = WARMUP_ITERATIONS
        /\ ticks = 0
        /\ faults = 0
        /\ temp_history = Repeat(MaxOf(r.temps), HISTORY_MAXLEN)
        /\ util_history = Repeat(MaxOf(r.utils), HISTORY_MAXLEN)
        /\ pwm_history = Repeat(intake, HISTORY_MAXLEN)
        /\ current_intake_pwm = intake
        /\ current_exhaust_pwm = exhaust
        /\ explore_exhaust_idx = idx
        /\ explore_start_time = Some(EXPLORE_HOLD_TIME)
        /\ explore_load_bucket = bucket
        /\ now = EXPLORE_HOLD_TIME
        /\ poll_interval = Some(get_poll_interval(MaxOf(r.utils), MaxOf(r.temps)))
        /\ temps = r.temps /\ utils = r.utils /\ powers = r.powers
        /\ target_intake = Some(intake) /\ target_exhaust = Some(target_ex)
        /\ intake_pwm = Some(intake) /\ exhaust_pwm = Some(exhaust)
        /\ driver = Some("explore")
        /\ outcome = "ok"
        /\ pre = Some([current_intake_pwm |-> intake,
                       current_exhaust_pwm |-> EXPLORE_EXHAUST_LEVELS[prev + 1],
                       explore_exhaust_idx |-> prev,
                       explore_start_time |-> Some(0),
                       explore_load_bucket |-> bucket,
                       poll_interval |-> get_poll_interval(MaxOf(r.utils),
                                                           MaxOf(r.temps))])
        /\ pwm_writes = BothWrites(intake, exhaust)
        /\ steps = Append(TickSteps("ok"), "time.sleep")
        /\ hw_intake_pwm = intake
        /\ hw_exhaust_pwm = exhaust
        /\ hw_intake_enable = "1"
        /\ hw_exhaust_enable = "1"
        /\ csv_rows = HISTORY_MAXLEN
        /\ csv_last = Some(CsvRow(r, intake, exhaust))
        /\ console = Some(ConsoleLine(r, intake, exhaust, "explore"))
        /\ twin = [current_intake_pwm |-> intake,
                   current_exhaust_pwm |-> target_ex,
                   temp_history |-> Repeat(MaxOf(r.temps), HISTORY_MAXLEN),
                   util_history |-> Repeat(MaxOf(r.utils), HISTORY_MAXLEN),
                   pwm_history |-> Repeat(intake, HISTORY_MAXLEN),
                   poll_interval |-> Some(get_poll_interval(MaxOf(r.utils),
                                                            MaxOf(r.temps))),
                   intake_writes |-> <<intake>>]
        /\ call = NoCall

InitSweep ==
    \E r \in SteadyReadings, idx \in 0 .. TopIdx : SweepState(r, idx)

NextSweep ==
    \/ TickOk
    \/ TickSensorError
    \/ TickWriteError
    \/ TickLogPermissionError
    \/ TickLogError
    \/ Sleep

SpecSweep == InitSweep /\ [][NextSweep]_vars

\* The run from its construction together with the runs from the states of
\* the sweep, whose history buffers are full.
\* The run up to the start of the while-True loop, with no budget on the
\* failures of the warm-up.
NextStart ==
    \/ Construct
    \/ ConstructFail
    \/ EnableManualMode
    \/ EnableManualModeFail
    \/ Warmup
    \/ WarmupRaises

SpecStart == Init /\ [][NextStart]_vars

\* An iteration of the warm-up returns: get_gpu_stats, the read of the PWM
\* nodes and the sleep all return or raise.
FairStart == SpecStart /\ WF_vars(Warmup \/ WarmupRaises)

SpecRun == (Init \/ InitSweep) /\ [][Next]_vars

-----------------------------------------------------------------------------
(* The training scripts train_pwm_curve.py and train_power_curve.py.  Each  *)
(* reduces the logged samples to a raw table from bucket to PWM, passes it  *)
(* through the monotonicity pass and prints curves for the controller.  A   *)
(* table is a sequence over the buckets in increasing order; an entry is    *)
(* None when the bucket is not a key of raw_curve.  The raw values are      *)
(* quantiles of integer PWM samples, so they are held in quarters of a PWM  *)
(* step, and int() truncates them at printing.                              *)

\* The largest bucket index of a power table: the bucket holding max_power.
MaxBucket == 4

POWER_BUCKET_SIZE == 25
UTIL_BUCKET_SIZE == 10
UTIL_BUCKETS == 11
MONOTONIC_START_PWM == 110
MISSING_BUCKET_PWM == 255

key_utils == <<0, 20, 40, 60, 80, 90, 100>>
key_powers == <<0, 50, 100, 150, 175, 200, 225, 250>>

\* A PWM value n in quarters, and Python's int() of a value in quarters.
Quarters(n) == 4 * n
IntOf(q) == Trunc(q, 4)

\* The pass that forgets the running maximum.
RECURSIVE monotonic_curve_NoCarry(_, _, _)
monotonic_curve_NoCarry(raw_curve, i, max_pwm_so_far) ==
    IF i > Len(raw_curve) THEN <<>>
    ELSE IF raw_curve[i] = None
         THEN <<None>> \o monotonic_curve_NoCarry(raw_curve, i + 1, max_pwm_so_far)
         ELSE LET pwm == Max(raw_curve[i][1], max_pwm_so_far)
              IN <<Some(pwm)>> \o
                 monotonic_curve_NoCarry(raw_curve, i + 1, max_pwm_so_far)

\* The monotonicity pass over the sorted keys of raw_curve from key i on.
RECURSIVE monotonic_curve(_, _, _)
monotonic_curve(raw_curve, i, max_pwm_so_far) ==
    IF i > Len(raw_curve) THEN <<>>
    ELSE IF raw_curve[i] = None
         THEN <<None>> \o monotonic_curve(raw_curve, i + 1, max_pwm_so_far)
         ELSE LET pwm == Max(raw_curve[i][1], max_pwm_so_far)
              IN <<Some(pwm)>> \o monotonic_curve(raw_curve, i + 1, pwm)

\* monotonic_curve.get(bucket, 255) for the bucket of a power or utilization.
CurveGet(curve, value, bucket_size) ==
    LET i == (value \div bucket_size) + 1
    IN IF i <= Len(curve) /\ curve[i] # None
       THEN curve[i][1] ELSE Quarters(MISSING_BUCKET_PWM)

\* POWER_PWM_POINTS: one point for every key of monotonic_curve.
POWER_PWM_POINTS(curve) ==
    [i \in 1 .. Len(curve) |->
        IF curve[i] = None THEN None
        ELSE Some(<<(i - 1) * POWER_BUCKET_SIZE, IntOf(curve[i][1])>>)]

\* POWER_PWM_POINTS_SIMPLE: one point for every key power.
POWER_PWM_POINTS_SIMPLE(curve) ==
    [k \in 1 .. Len(key_powers) |->
        Some(<<key_powers[k], IntOf(CurveGet(curve, key_powers[k], POWER_BUCKET_SIZE))>>)]

\* simplified: one point for every key utilization.
simplified(curve) ==
    [k \in 1 .. Len(key_utils) |->
        Some(<<key_utils[k], IntOf(CurveGet(curve, key_utils[k], UTIL_BUCKET_SIZE))>>)]

\* UTIL_PWM_CURVE: simplified from the highest utilization down, a point
\* printed only when its PWM differs from the last one printed.  An entry
\* that is not printed is None.
UTIL_PWM_CURVE(curve) ==
    LET s == simplified(curve)
        n == Len(s)
    IN [k \in 1 .. n |->
          LET j == n + 1 - k
          IN IF j < n /\ s[j][1][2] = s[j + 1][1][2] THEN None ELSE s[j]]

\* UTIL_PWM_POINTS: one point for every utilization bucket.
UTIL_PWM_POINTS(curve) ==
    [i \in 1 .. UTIL_BUCKETS |->
        Some(<<(i - 1) * UTIL_BUCKET_SIZE,
               IntOf(CurveGet(curve, (i - 1) * UTIL_BUCKET_SIZE, UTIL_BUCKET_SIZE))>>)]

\* Raw quantiles of a power bucket: below the pass's start, fractional
\* quantiles between two PWM steps, a high value, and the 255 of a bucket
\* with too few safe samples.
PowerRawPwms == {Quarters(100), Quarters(130) + 1, Quarters(130) + 2,
                 Quarters(180), Quarters(MISSING_BUCKET_PWM)}

\* Raw medians of a utilization bucket.
UtilRawPwms == {Quarters(100), Quarters(180) + 2}

RECURSIVE Tables(_, _)
Tables(n, entries) ==
    IF n = 0 THEN {<<>>}
    ELSE {t \o <<e>> : t \in Tables(n - 1, entries), e \in entries}

\* raw_curve of train_power_curve.py: the buckets with samples, up to the
\* bucket of max_power, which has samples.
PowerTables ==
    {t \in UNION {Tables(n, {None} \cup {Some(q) : q \in PowerRawPwms}) :
                    n \in 1 .. MaxBucket + 1} : t[Len(t)] # None}

\* raw_curve of train_pwm_curve.py: every bucket of range(0, 101, 10).
UtilTables == Tables(UTIL_BUCKETS, {Some(q) : q \in UtilRawPwms})

InitTrain ==
    /\ HarnessInit
    /\ \/ \E raw_curve \in PowerTables :
             call = [fn |-> "analyze_and_build_power_curve", raw_curve |-> raw_curve,
                     monotonic_curve |-> None, printed |-> None]
       \/ \E raw_curve \in UtilTables :
             call = [fn |-> "analyze_and_build_curve", raw_curve |-> raw_curve,
                     monotonic_curve |-> None, printed |-> None]

\* train_power_curve.py builds and prints its curves.
BuildPowerCurve ==
    /\ call.fn = "analyze_and_build_power_curve"
    /\ call.printed = None
    /\ LET curve == monotonic_curve(call.raw_curve, 1, Quarters(MONOTONIC_START_PWM))
       IN call' = [call EXCEPT !.monotonic_curve = curve,
                       !.printed = <<POWER_PWM_POINTS(curve),
                                     POWER_PWM_POINTS_SIMPLE(curve)>>]
    /\ HarnessUnchanged

\* train_pwm_curve.py builds and prints its curves.
BuildUtilCurve ==
    /\ call.fn = "analyze_and_build_curve"
    /\ call.printed = None
    /\ LET curve == monotonic_curve(call.raw_curve, 1, Quarters(MONOTONIC_START_PWM))
       IN call' = [call EXCEPT !.monotonic_curve = curve,
                       !.printed = <<UTIL_PWM_CURVE(curve), UTIL_PWM_POINTS(curve)>>]
    /\ HarnessUnchanged

NextTrain == BuildPowerCurve \/ BuildUtilCurve

SpecTrain == InitTrain /\ [][NextTrain]_vars

-----------------------------------------------------------------------------
(* The loop under readings that no longer change, without --explore and    *)
(* with every read and write succeeding.  The run is taken up at any       *)
(* iteration: the history holds what the earlier iterations read, the two  *)
(* fans are where the earlier iterations left them.  An iteration is       *)
(* find_optimal_pwm, apply_rate_limit for each fan, set_pwm, update_history*)
(* and get_poll_interval; fell_* records that a fan has been slowed since  *)
(* the readings stopped changing.                                          *)

\* The readings below the emergency temperature.
CoolReadings == {r \in Readings : MaxOf(r.temps) < EMERGENCY_TEMP}

\* The last samples of temp_history when the readings stop changing.
SteadyHistories ==
    {<<a, b, c>> : a \in {MaxOf(r.temps) : r \in CoolReadings},
                   b \in {MaxOf(r.temps) : r \in CoolReadings},
                   c \in {MaxOf(r.temps) : r \in CoolReadings}}

SteadyPwmSamples == {MIN_PWM, EXHAUST_MIN_PWM, 215, MAX_PWM}

InitSteady ==
    /\ HarnessInit
    /\ \E r \in CoolReadings, history \in SteadyHistories,
          cur_intake \in SteadyPwmSamples, cur_exhaust \in SteadyPwmSamples,
          interval \in {POLL_INTERVAL_CRITICAL, POLL_INTERVAL_NORMAL} :
          call = [fn |-> "run", reading |-> r, temp_history |-> history,
                  current_intake_pwm |-> cur_intake,
                  current_exhaust_pwm |-> cur_exhaust,
                  poll_interval |-> interval, driver |-> None,
                  fell_intake |-> FALSE, fell_exhaust |-> FALSE]

\* One iteration of the loop on the unchanged reading.
SteadyTick ==
    /\ call.fn = "run"
    /\ LET r == call.reading
           opt == find_optimal_pwm(r.temps, call.temp_history, call.current_intake_pwm,
                                   call.current_exhaust_pwm)
           emergency == opt.driver = "emergency"
           new_intake == ClampPwm(apply_rate_limit(opt.intake, call.current_intake_pwm,
                                                   call.poll_interval, emergency))
           new_exhaust == ClampPwm(apply_rate_limit(opt.exhaust, call.current_exhaust_pwm,
                                                    call.poll_interval, emergency))
       IN call' = [call EXCEPT
                     !.current_intake_pwm = new_intake,
                     !.current_exhaust_pwm = new_exhaust,
                     !.temp_history = DequeAppend(call.temp_history, MaxOf(r.temps)),
                     !.poll_interval = get_poll_interval(MaxOf(r.utils), MaxOf(r.temps)),
                     !.driver = Some(opt.driver),
                     !.fell_intake = call.fell_intake \/ new_intake < call.current_intake_pwm,
                     !.fell_exhaust = call.fell_exhaust
                                         \/ new_exhaust < call.current_exhaust_pwm]
    /\ HarnessUnchanged

NextSteady == SteadyTick

SpecSteady == InitSteady /\ [][NextSteady]_vars

\* The scheduler always runs the next iteration.
FairSteady == SpecSteady /\ WF_vars(SteadyTick)

-----------------------------------------------------------------------------
(* Properties.                                                             *)

PwmRange == MIN_PWM .. MAX_PWM

\* The last iteration of the while-True loop got its sensor read.
TickRead == outcome \in {"ok", "write error", "log error"}

\* The last iteration's set_pwm call completed both writes.
TickWrote == outcome \in {"ok", "log error"}

\* The cap on one iteration's decrease, as the rate limiter is documented.
RateCap(interval) ==
    Max(5, Trunc(MAX_PWM_CHANGE_PER_SEC * interval, MS_PER_SEC))

\* C1: on an iteration whose sensor read succeeded and whose max junction
\* temperature is at or above EMERGENCY_TEMP, set_pwm is handed MAX_PWM for
\* both fans, with or without exploration mode and whatever the fields held
\* before; every write the iteration makes is MAX_PWM, and when both writes go
\* through both nodes and both fields hold MAX_PWM.
C1_EmergencyMax ==
    (TickRead /\ MaxOf(temps) >= EMERGENCY_TEMP) =>
        /\ intake_pwm = Some(MAX_PWM)
        /\ exhaust_pwm = Some(MAX_PWM)
        /\ \A i \in 1 .. Len(pwm_writes) : pwm_writes[i][2] = MAX_PWM
        /\ TickWrote =>
              /\ pwm_writes = << <<"pwm3", MAX_PWM>>, <<"pwm1", MAX_PWM>> >>
              /\ hw_intake_pwm = MAX_PWM /\ hw_exhaust_pwm = MAX_PWM
              /\ current_intake_pwm = MAX_PWM /\ current_exhaust_pwm = MAX_PWM

\* An emergency iteration (temperatures [70, 95]) that found both fans below
\* MAX_PWM and left both at MAX_PWM.
C1_Witness ==
    /\ outcome = "ok"
    /\ temps = <<70, 95>>
    /\ pre[1].current_intake_pwm < MAX_PWM
    /\ pre[1].current_exhaust_pwm < MAX_PWM
    /\ hw_intake_pwm = MAX_PWM
    /\ hw_exhaust_pwm = MAX_PWM

\* C2: the two current_*_pwm fields, and every value an iteration writes to a
\* PWM node, lie in [MIN_PWM, MAX_PWM].
C2_PwmInRange ==
    /\ current_intake_pwm \in PwmRange
    /\ current_exhaust_pwm \in PwmRange
    /\ \A i \in 1 .. Len(pwm_writes) : pwm_writes[i][2] \in PwmRange

\* An iteration that wrote both ends of the range: intake at MIN_PWM, exhaust
\* at MAX_PWM.
C2_Witness ==
    /\ outcome = "ok"
    /\ pwm_writes = << <<"pwm3", MIN_PWM>>, <<"pwm1", MAX_PWM>> >>
    /\ current_intake_pwm = MIN_PWM
    /\ current_exhaust_pwm = MAX_PWM

RateDone == call.fn = "apply_rate_limit" /\ call.result # None

\* C3: apply_rate_limit returns target when emergency or target >= current,
\* and max(target, current - cap) otherwise, with
\* cap = max(5, trunc(MAX_PWM_CHANGE_PER_SEC * interval)); so a limited
\* decrease stays at or above both target and current - cap, and
\* (current 230, target 110, interval 1.0 s) gives 220.
C3_RateLimitReference ==
    RateDone =>
        LET target == call.target_pwm
            current == call.current_pwm
            cap == RateCap(call.poll_interval)
            result == call.result[1]
        IN  /\ result = IF call.emergency \/ target >= current
                        THEN target
                        ELSE Max(target, current - cap)
            /\ (~call.emergency /\ target < current) =>
                  (result >= target /\ result >= current - cap)
            /\ (~call.emergency /\ target = 110 /\ current = 230
                    /\ call.poll_interval = 1000) => result = 220

\* The documented scenario has been computed: 230 -> 110 at 1.0 s gives 220.
C3_Witness ==
    /\ RateDone
    /\ ~call.emergency
    /\ call.target_pwm = 110
    /\ call.current_pwm = 230
    /\ call.poll_interval = 1000
    /\ call.result = Some(220)

\* C4 as claimed: on every non-emergency iteration, with or without
\* exploration mode, each value written to a fan is at least that fan's
\* current_*_pwm minus the rate-limit cap, and an increase of the target is
\* written in full.
C4_SpeedDownsThrottled ==
    (TickRead /\ MaxOf(temps) < EMERGENCY_TEMP) =>
        \A i \in 1 .. Len(pwm_writes) :
            LET intake == pwm_writes[i][1] = "pwm3"
                value == pwm_writes[i][2]
                previous == IF intake THEN pre[1].current_intake_pwm
                            ELSE pre[1].current_exhaust_pwm
                target == IF intake THEN target_intake[1] ELSE target_exhaust[1]
            IN  /\ value >= previous - RateCap(pre[1].poll_interval)
                /\ (target >= previous /\ (intake \/ ~EXPLORE_MODE)) => value = target

\* The part of C4 the code keeps: the intake fan always, and the exhaust fan
\* without exploration mode.
C4_ThrottledOutsideExploration ==
    (TickRead /\ MaxOf(temps) < EMERGENCY_TEMP) =>
        \A i \in 1 .. Len(pwm_writes) :
            LET intake == pwm_writes[i][1] = "pwm3"
                value == pwm_writes[i][2]
                previous == IF intake THEN pre[1].current_intake_pwm
                            ELSE pre[1].current_exhaust_pwm
                target == IF intake THEN target_intake[1] ELSE target_exhaust[1]
            IN  (intake \/ ~EXPLORE_MODE) =>
                   /\ value >= previous - RateCap(pre[1].poll_interval)
                   /\ target >= previous => value = target

\* C5: an iteration whose get_gpu_stats raises writes no PWM node and leaves
\* the three histories, current_intake_pwm, current_exhaust_pwm, the PWM nodes
\* and poll_interval as they were.
C5_SensorErrorSkipsTick ==
    [][(pc = "loop" /\ outcome' = "sensor error") =>
          /\ pwm_writes' = <<>>
          /\ UNCHANGED <<histVars, fanVars, poll_interval, hwVars>>]_vars

\* A sensor error after the loop had raised the intake fan and switched to
\* the fast poll interval.
C5_Witness ==
    /\ pc = "sleep"
    /\ outcome = "sensor error"
    /\ poll_interval = Some(POLL_INTERVAL_CRITICAL)
    /\ current_intake_pwm > MIN_PWM
    /\ Len(temp_history) > WARMUP_ITERATIONS
    /\ pwm_writes = <<>>

\* C6: once in the while-True loop the process stays in it: every iteration,
\* failing or not, ends in the sleep, and every sleep leads back to the top of
\* the loop, where get_gpu_stats is called.
C6_LoopNeverEnds ==
    /\ [][pc = "loop" => pc' = "sleep"]_vars
    /\ [][pc = "sleep" => pc' = "loop"]_vars
    /\ [](pc = "sleep" ~> pc = "loop")

\* The loop is back at its top after an iteration in which an exception was
\* caught.
C6_Witness ==
    /\ pc = "loop"
    /\ outcome \in {"sensor error", "write error", "log error"}
    /\ ticks > 0

CurveDone == call.fn = "get_temp_based_pwm" /\ call.result1 # None

\* C7: on each configured curve, x1 < x2 implies
\* get_temp_based_pwm(x1) <= get_temp_based_pwm(x2).
C7_CurveMonotonic ==
    (CurveDone /\ call.points \in ConfiguredCurves /\ call.x1 < call.x2) =>
        call.result1[1] <= call.result2[1]

\* Two neighbouring temperatures of the exhaust curve with different PWM.
C7_Witness ==
    /\ CurveDone
    /\ call.points = TEMP_EXHAUST_POINTS
    /\ call.x1 = 64
    /\ call.x2 = 65
    /\ call.result1[1] < call.result2[1]

StrictlyIncreasing(points) ==
    \A i \in 1 .. Len(points) - 1 : points[i][1] < points[i + 1][1]

\* C8: on a curve with strictly increasing driving values, a curve point
\* (x, p) evaluates to p exactly, an x below the first point to the first
\* point's PWM and an x above the last point to the last point's PWM.
C8_CurvePointsExact ==
    (CurveDone /\ StrictlyIncreasing(call.points)) =>
        LET points == call.points
            x == call.x1
            result == call.result1[1]
        IN  /\ \A i \in 1 .. Len(points) : x = points[i][1] => result = points[i][2]
            /\ x < points[1][1] => result = points[1][2]
            /\ x > points[Len(points)][1] => result = points[Len(points)][2]

\* An inner point of the intake curve, (75, 210), has been evaluated.
C8_Witness ==
    /\ CurveDone
    /\ call.points = TEMP_INTAKE_POINTS
    /\ call.x1 = 75
    /\ call.result1 = Some(210)

\* p1 + (x - x1) * (p2 - p1) / (x2 - x1), truncated toward zero.
Interpolated(x, a, b) ==
    Trunc(a[2] * (b[1] - a[1]) + (x - a[1]) * (b[2] - a[2]), b[1] - a[1])

\* The interpolation part of C9: strictly between two adjacent points the
\* result is the truncated linear interpolation (25 between (20, 126) and
\* (30, 189) gives 157).
C9_Interpolation ==
    CurveDone =>
        LET points == call.points
            x == call.x1
            result == call.result1[1]
        IN  /\ \A i \in 1 .. Len(points) - 1 :
                  (points[i][1] < x /\ x < points[i + 1][1]) =>
                      result = Interpolated(x, points[i], points[i + 1])
            /\ (points = SCENARIO_POINTS /\ x = 25) => result = 157

\* C9 as claimed: the interpolation above, and a degenerate segment
\* (x1, p1), (x2, p2) with x1 = x2 evaluates to p1.
C9_InterpolationAndDegenerate ==
    /\ C9_Interpolation
    /\ CurveDone =>
          \A i \in 1 .. Len(call.points) - 1 :
              (call.points[i][1] = call.points[i + 1][1]
                  /\ call.x1 = call.points[i][1]) =>
                      call.result1[1] = call.points[i][2]

\* C10: in exploration mode, an iteration whose max temperature is at or
\* above EXPLORE_TEMP_CEILING hands MAX_PWM to set_pwm for the exhaust, resets
\* the sweep index to the top of the list and clears explore_start_time,
\* whatever index and start time it found; the next exploring iteration then
\* starts its dwell at its own time.
C10_ExploreRetreat ==
    /\ (EXPLORE_MODE /\ TickRead /\ MaxOf(temps) >= EXPLORE_TEMP_CEILING) =>
          /\ exhaust_pwm = Some(MAX_PWM)
          /\ exhaust_pwm = Some(EXPLORE_EXHAUST_LEVELS[Len(EXPLORE_EXHAUST_LEVELS)])
          /\ driver = Some("explore-retreat")
          /\ explore_exhaust_idx = Len(EXPLORE_EXHAUST_LEVELS) - 1
          /\ explore_start_time = None
          /\ TickWrote => (hw_exhaust_pwm = MAX_PWM /\ current_exhaust_pwm = MAX_PWM)
    /\ (EXPLORE_MODE /\ TickRead /\ driver = Some("explore")
            /\ pre[1].explore_start_time = None) =>
          explore_start_time = Some(now)

\* A retreat in the middle of a dwell: the sweep had stepped below the top and
\* its timer was running; the iteration (86 degrees, below emergency) leaves
\* the index at the top, the timer cleared and the exhaust at MAX_PWM.
C10_Witness ==
    /\ EXPLORE_MODE
    /\ outcome = "ok"
    /\ MaxOf(temps) = 86
    /\ pre[1].explore_exhaust_idx < TopIdx
    /\ pre[1].explore_start_time # None
    /\ explore_exhaust_idx = TopIdx
    /\ explore_start_time = None
    /\ hw_exhaust_pwm = MAX_PWM

\* The load bucket of the last reading.
LoadBucket == Some(MaxOf(powers) \div LOAD_BUCKET_WATTS)

\* The last iteration found a bucket recorded and read another one.
BucketChanged ==
    /\ pre[1].explore_load_bucket # None
    /\ LoadBucket # pre[1].explore_load_bucket

\* C11: in exploration mode, an iteration whose load bucket differs from the
\* recorded one hands MAX_PWM to set_pwm for the exhaust and leaves the sweep
\* index at the top with no dwell time run: the timer is either cleared or set
\* to the time of this iteration.
C11_LoadChangeRestarts ==
    (EXPLORE_MODE /\ TickRead /\ BucketChanged) =>
        /\ exhaust_pwm = Some(MAX_PWM)
        /\ explore_exhaust_idx = TopIdx
        /\ explore_start_time \in {None, Some(now)}
        /\ (MaxOf(temps) < EXPLORE_TEMP_CEILING) => explore_load_bucket = LoadBucket
        /\ driver = Some("explore") => explore_start_time = Some(now)
        /\ TickWrote => (hw_exhaust_pwm = MAX_PWM /\ current_exhaust_pwm = MAX_PWM)

\* A busy iteration below the ceiling reads another load bucket while the
\* sweep is below the top: the sweep is back at the top, the timer restarted,
\* the exhaust at MAX_PWM.
C11_Witness ==
    /\ EXPLORE_MODE
    /\ ticks > 0
    /\ outcome = "ok"
    /\ BucketChanged
    /\ driver = Some("explore")
    /\ pre[1].explore_exhaust_idx < TopIdx
    /\ pre[1].current_exhaust_pwm < MAX_PWM
    /\ explore_exhaust_idx = TopIdx
    /\ explore_start_time = Some(now)
    /\ hw_exhaust_pwm = MAX_PWM

\* The values of EXPLORE_EXHAUST_LEVELS.
ExhaustLevels == {EXPLORE_EXHAUST_LEVELS[i] : i \in 1 .. Len(EXPLORE_EXHAUST_LEVELS)}

\* C12: the sweep index always lies within the candidate list and in
\* exploration mode the exhaust handed to set_pwm is a candidate; an iteration
\* without retreat and without load change moves the index only when the dwell
\* time has elapsed, and then by exactly one position down, or from the lowest
\* candidate back to the highest.
C12_SweepStepsByOne ==
    /\ explore_exhaust_idx \in 0 .. TopIdx
    /\ (EXPLORE_MODE /\ TickRead) => exhaust_pwm[1] \in ExhaustLevels
    /\ (EXPLORE_MODE /\ TickRead /\ MaxOf(temps) < EXPLORE_TEMP_CEILING
            /\ ~BucketChanged) =>
          LET prev == pre[1].explore_exhaust_idx
              started == pre[1].explore_start_time
          IN  /\ explore_exhaust_idx # prev =>
                    /\ driver = Some("explore")
                    /\ started # None
                    /\ now - started[1] >= EXPLORE_HOLD_TIME
                    /\ explore_exhaust_idx = IF prev > 0 THEN prev - 1 ELSE TopIdx
                    /\ explore_start_time = Some(now)
              /\ driver = Some("explore") =>
                    exhaust_pwm = Some(EXPLORE_EXHAUST_LEVELS[explore_exhaust_idx + 1])

\* The sweep wraps: an iteration found the index at the lowest candidate (110)
\* with the dwell elapsed and left it at the highest (255).
C12_Witness ==
    /\ EXPLORE_MODE
    /\ ticks > 0
    /\ outcome = "ok"
    /\ driver = Some("explore")
    /\ ~BucketChanged
    /\ pre[1].explore_exhaust_idx = 0
    /\ pre[1].current_exhaust_pwm = EXPLORE_EXHAUST_LEVELS[1]
    /\ explore_exhaust_idx = TopIdx
    /\ hw_exhaust_pwm = MAX_PWM

\* The values the last iteration wrote to the intake node, in order.
IntakeWrites ==
    LET w == SelectSeq(pwm_writes, LAMBDA x : x[1] = "pwm3")
    IN  [i \in 1 .. Len(w) |-> w[i][2]]

\* C13: with or without exploration mode, on the same readings and the same
\* exceptions, the run writes the intake values the run without exploration
\* writes, and holds the same current_intake_pwm, the same three histories and
\* the same poll_interval.
C13_ExplorationLeavesIntake ==
    /\ current_intake_pwm = twin.current_intake_pwm
    /\ temp_history = twin.temp_history
    /\ util_history = twin.util_history
    /\ pwm_history = twin.pwm_history
    /\ poll_interval = twin.poll_interval
    /\ (pc \in {"loop", "sleep"} /\ ticks > 0) => IntakeWrites = twin.intake_writes

\* An exploring iteration wrote an exhaust value the run without exploration
\* does not hold, and an intake value above MIN_PWM that it does.
C13_Witness ==
    /\ EXPLORE_MODE
    /\ outcome = "ok"
    /\ ticks > 1
    /\ current_exhaust_pwm # twin.current_exhaust_pwm
    /\ current_intake_pwm > MIN_PWM
    /\ IntakeWrites = <<current_intake_pwm>>
    /\ twin.intake_writes = <<current_intake_pwm>>

\* Warm-up has begun and no iteration of the while-True loop has run yet.
Started == pc = "warmup" \/ (pc = "loop" /\ ticks = 0 /\ warmup_i = WARMUP_ITERATIONS)

\* C14 as claimed: from the start of warm-up to the first decision, both
\* enable nodes hold "1" and each PWM node holds the value recorded in
\* current_intake_pwm / current_exhaust_pwm.
C14_StartupWritesDefault ==
    (Started /\ outcome # "ok") =>
        /\ hw_intake_enable = "1"
        /\ hw_exhaust_enable = "1"
        /\ hw_intake_pwm = current_intake_pwm
        /\ hw_exhaust_pwm = current_exhaust_pwm

\* The part of C14 the code keeps: manual mode is enabled on both fans before
\* warm-up begins, and it stays enabled.
C14_ManualModeEnabled ==
    pc \in {"warmup", "loop", "sleep"} =>
        (hw_intake_enable = "1" /\ hw_exhaust_enable = "1")

\* The field that records the value of a PWM node.
Recorded(node) == IF node = "pwm3" THEN current_intake_pwm ELSE current_exhaust_pwm

\* C15 as claimed: an iteration writes both PWM nodes or neither, and after
\* it each write it made is recorded in the current_*_pwm field of its fan.
C15_NoHalfAppliedDecision ==
    (pc \in {"loop", "sleep"} /\ ticks > 0) =>
        /\ Len(pwm_writes) \in {0, 2}
        /\ \A i \in 1 .. Len(pwm_writes) :
              Recorded(pwm_writes[i][1]) = pwm_writes[i][2]

\* The part of C15 the code keeps: when set_pwm returns, both nodes hold the
\* decided values and both fields record them; when its first write raises,
\* nothing was written.
C15_CompletedWritesRecorded ==
    (pc \in {"loop", "sleep"} /\ ticks > 0) =>
        /\ TickWrote =>
              /\ Len(pwm_writes) = 2
              /\ hw_intake_pwm = current_intake_pwm
              /\ hw_exhaust_pwm = current_exhaust_pwm
              /\ \A i \in 1 .. 2 : Recorded(pwm_writes[i][1]) = pwm_writes[i][2]
        /\ ~TickWrote => Len(pwm_writes) <= 1


\* ---------------------------------------------------------------------------
\* C16

\* The calls the claim orders, sensor read to sleep.
ClaimedOrder ==
    <<"get_gpu_stats", "find_optimal_pwm", "apply_rate_limit", "set_pwm",
      "update_history", "log", "get_poll_interval", "time.sleep">>

Position(name) == CHOOSE i \in 1 .. Len(ClaimedOrder) : ClaimedOrder[i] = name

Count(name) == Len(SelectSeq(steps, LAMBDA x : x = name))

\* The calls of the last iteration that the claim names, in the order made.
ClaimedSteps == SelectSeq(steps, LAMBDA x : \E i \in 1 .. Len(ClaimedOrder) : ClaimedOrder[i] = x)

InClaimedOrder ==
    \A i \in 1 .. Len(ClaimedSteps) - 1 :
        Position(ClaimedSteps[i]) < Position(ClaimedSteps[i + 1])

TickStepsOrdered ==
    (pc \in {"loop", "sleep"} /\ ticks > 0) =>
        /\ InClaimedOrder
        /\ Head(steps) = "get_gpu_stats"
        /\ outcome = "ok" => Count("set_pwm") = 1
        /\ TickWrote <=> Count("update_history") = 1
        /\ pc = "sleep" => Count("time.sleep") = 0
        /\ pc = "loop" => /\ Count("time.sleep") = 1
                          /\ steps[Len(steps)] = "time.sleep"
                          /\ outcome = "ok" => ClaimedSteps = ClaimedOrder

HistoryLengths ==
    /\ Len(temp_history) = Len(util_history)
    /\ Len(util_history) = Len(pwm_history)
    /\ Len(pwm_history) <= HISTORY_MAXLEN

\* new is old with x appended, the oldest sample of a full old evicted.
Appended(old, new, x) ==
    IF Len(old) = HISTORY_MAXLEN
    THEN /\ Len(new) = HISTORY_MAXLEN
         /\ \A i \in 1 .. HISTORY_MAXLEN - 1 : new[i] = old[i + 1]
         /\ new[HISTORY_MAXLEN] = x
    ELSE /\ Len(new) = Len(old) + 1
         /\ \A i \in 1 .. Len(old) : new[i] = old[i]
         /\ new[Len(new)] = x

\* The step is an iteration, of the warm-up or of the loop, that called
\* update_history.
UpdatesHistory ==
    \/ pc = "warmup" /\ warmup_i' # warmup_i /\ outcome' = "warmup ok"
    \/ pc = "loop" /\ pc' = "sleep" /\ outcome' \in {"ok", "log error"}

\* C17: the three histories always have the same length, at most 10; an
\* update of the history appends the sample to each of them, and when they
\* are full it evicts exactly the oldest sample and keeps the other nine in
\* order.
C17_HistoryRing ==
    /\ []HistoryLengths
    /\ [][UpdatesHistory =>
            /\ Appended(temp_history, temp_history', MaxOf(temps'))
            /\ Appended(util_history, util_history', MaxOf(utils'))
            /\ Appended(pwm_history, pwm_history', intake_pwm'[1])]_vars
    /\ [][~UpdatesHistory => UNCHANGED histVars]_vars

C17_Witness ==
    /\ pc = "sleep" /\ ticks > 1 /\ TickWrote
    /\ Len(temp_history) = HISTORY_MAXLEN
    /\ temp_history[HISTORY_MAXLEN] = MaxOf(temps)
    /\ temp_history[HISTORY_MAXLEN] # temp_history[HISTORY_MAXLEN - 1]
    /\ temp_history[HISTORY_MAXLEN - 1] # temp_history[1]


\* ---------------------------------------------------------------------------
\* C18

\* The step is an iteration of the warm-up loop.
WarmupIteration == pc = "warmup" /\ warmup_i' # warmup_i

WarmupSleeps ==
    SelectSeq(steps, LAMBDA x : x \notin {"get_gpu_stats", "get_current_pwm", "update_history"})

\* C18: the warm-up ends after exactly 5 iterations and the while-True loop is
\* entered, whichever of the iterations fail; an iteration of the warm-up
\* sleeps once, for POLL_INTERVAL_NORMAL, appends at most one sample, whose
\* PWM is the one read back from the intake node, and writes no PWM.
C18_WarmupTerminates ==
    /\ (pc = "warmup") ~> (pc = "loop" /\ warmup_i = WARMUP_ITERATIONS)
    /\ [](pc = "warmup" => warmup_i < WARMUP_ITERATIONS)
    /\ [](pc = "warmup" /\ warmup_i > 0 =>
            WarmupSleeps = <<"time.sleep(POLL_INTERVAL_NORMAL)">>)
    /\ [][WarmupIteration =>
            /\ warmup_i' = warmup_i + 1
            /\ pc' = "loop" <=> warmup_i' = WARMUP_ITERATIONS
            /\ pc' = "loop" => poll_interval' = Some(POLL_INTERVAL_NORMAL)
            /\ \/ UNCHANGED histVars
               \/ /\ Len(pwm_history') = Len(pwm_history) + 1
                  /\ Appended(pwm_history, pwm_history', hw_intake_pwm)
                  /\ Appended(temp_history, temp_history', MaxOf(temps'))
                  /\ Appended(util_history, util_history', MaxOf(utils'))
            /\ UNCHANGED <<hwVars, fanVars, pwm_writes>>]_vars

\* The loop is entered after a warm-up in which some iterations failed and
\* some did not.
C18_Witness ==
    /\ pc = "loop" /\ ticks = 0
    /\ warmup_i = WARMUP_ITERATIONS
    /\ Len(pwm_history) \in 1 .. WARMUP_ITERATIONS - 1
    /\ pwm_history[1] = hw_intake_pwm
    /\ hw_intake_pwm # current_intake_pwm

\* ---------------------------------------------------------------------------
\* C19

\* C19: when the while-True loop is entered the history holds a sample.
C19_HistoryNonEmptyAtStart ==
    (pc = "loop" /\ ticks = 0) => Len(temp_history) > 0


\* ---------------------------------------------------------------------------
\* C20

OptimalDone == call.fn = "find_optimal_pwm" /\ call.result # None

\* newest - oldest of the last 3 temperatures of the history, which is twice
\* the trend; 0 when the history holds fewer than 3.
Rise(h) == IF Len(h) < 3 THEN 0 ELSE h[Len(h)] - h[Len(h) - 2]

PollUtilSamples == {0, CRITICAL_UTIL - 1, CRITICAL_UTIL, 100}
PollTempSamples == {0, CRITICAL_TEMP - 1, CRITICAL_TEMP, EMERGENCY_TEMP}

\* The fast interval exactly when the utilization is at least 90 or the
\* temperature at least 80.
PollRule(max_util, max_temp) ==
    IF max_util >= 90 \/ max_temp >= 80
    THEN POLL_INTERVAL_CRITICAL
    ELSE POLL_INTERVAL_NORMAL

\* C21: once run() has set it, poll_interval is 0.05 s or 0.1 s; after an
\* iteration that completed it is 0.05 s exactly when the highest utilization
\* read is at least 90 or the highest temperature read at least 80, and 0.1 s
\* otherwise; an iteration that raised leaves it as it was.
C21_PollInterval ==
    /\ poll_interval # None =>
          poll_interval[1] \in {POLL_INTERVAL_CRITICAL, POLL_INTERVAL_NORMAL}
    /\ (pc = "loop" /\ ticks = 0) => poll_interval = Some(POLL_INTERVAL_NORMAL)
    /\ \A u \in PollUtilSamples, t \in PollTempSamples :
          get_poll_interval(u, t) = PollRule(u, t)
    /\ (pc \in {"loop", "sleep"} /\ ticks > 0) =>
          IF outcome = "ok"
          THEN poll_interval[1] = PollRule(MaxOf(utils), MaxOf(temps))
          ELSE poll_interval[1] = pre[1].poll_interval

\* A completed iteration switched to the fast interval, and one that raised
\* kept it.
C21_Witness ==
    /\ pc = "sleep" /\ ticks > 1
    /\ outcome # "ok"
    /\ poll_interval = Some(POLL_INTERVAL_CRITICAL)
    /\ pre[1].poll_interval = POLL_INTERVAL_CRITICAL


\* ---------------------------------------------------------------------------
\* C22

\* C22: an iteration in which a write of set_pwm raises leaves
\* current_intake_pwm, current_exhaust_pwm, the three histories and
\* poll_interval as they were, appends no row to the log and prints no line of
\* log(); the loop sleeps and goes on to the next iteration.
C22_WriteFailureFrame ==
    /\ [][(pc = "loop" /\ outcome' = "write error") =>
            /\ UNCHANGED <<current_intake_pwm, current_exhaust_pwm>>
            /\ UNCHANGED histVars
            /\ UNCHANGED poll_interval
            /\ UNCHANGED <<csv_rows, csv_last, console>>
            /\ "update_history" \notin {steps'[i] : i \in 1 .. Len(steps')}
            /\ "log" \notin {steps'[i] : i \in 1 .. Len(steps')}
            /\ pc' = "sleep"]_vars
    /\ (pc = "sleep" /\ outcome = "write error") ~> (pc = "loop")

\* The loop is back at its top after an iteration whose decision differed from
\* the recorded intake PWM and whose write raised.
C22_Witness ==
    /\ pc = "loop" /\ ticks > 0
    /\ outcome = "write error"
    /\ intake_pwm # Some(current_intake_pwm)
    /\ current_intake_pwm = pre[1].current_intake_pwm


\* ---------------------------------------------------------------------------
\* C23

\* C23: when find_hwmon_path finds no nct6798 node the process ends: no enable
\* node and no PWM node was written, no sensor was read, neither the warm-up
\* nor the while-True loop was entered, and nothing happens afterwards.
C23_DiscoveryFailureIsFatal ==
    /\ [](outcome = "nct6798 not found" =>
            /\ pc = "exit"
            /\ hw_intake_enable = "auto" /\ hw_exhaust_enable = "auto"
            /\ <<hw_intake_pwm, hw_exhaust_pwm>> \in InitialHwPwm
            /\ pwm_writes = <<>>
            /\ steps = <<>>
            /\ temps = None /\ utils = None /\ powers = None
            /\ warmup_i = 0 /\ ticks = 0
            /\ csv_rows = 0 /\ console = None)
    /\ [][pc # "exit"]_vars

C23_Witness ==
    /\ pc = "exit"
    /\ outcome = "nct6798 not found"
    /\ hw_intake_enable = "auto"


\* ---------------------------------------------------------------------------
\* C24

\* What an iteration that completes does besides appending to LOG_FILE, for
\* some reading and some time: the values written to the two nodes and
\* recorded, the sample appended, the line printed, the next poll interval.
CompletesAsLogged ==
    \E r \in Readings, t \in TimeInputs :
        LET d == Decide(r, t) IN
        /\ temps' = r.temps /\ utils' = r.utils /\ powers' = r.powers
        /\ pwm_writes' = BothWrites(d.intake_pwm, d.exhaust_pwm)
        /\ hw_intake_pwm' = ClampPwm(d.intake_pwm)
        /\ hw_exhaust_pwm' = ClampPwm(d.exhaust_pwm)
        /\ current_intake_pwm' = hw_intake_pwm'
        /\ current_exhaust_pwm' = hw_exhaust_pwm'
        /\ temp_history' = DequeAppend(temp_history, MaxOf(r.temps))
        /\ util_history' = DequeAppend(util_history, MaxOf(r.utils))
        /\ pwm_history' = DequeAppend(pwm_history, d.intake_pwm)
        /\ console' = Some(ConsoleLine(r, hw_intake_pwm', hw_exhaust_pwm', d.driver))
        /\ poll_interval' = Some(get_poll_interval(MaxOf(r.utils), MaxOf(r.temps)))
        /\ explore_exhaust_idx' = d.idx
        /\ explore_start_time' = d.start

\* The step is an iteration in which log() got a PermissionError.
LogPermissionDenied == pc = "loop" /\ outcome' = "ok" /\ csv_rows' = csv_rows

\* C24: a PermissionError on LOG_FILE ends neither __init__ nor the
\* iteration, and the iteration is otherwise the one it is when the row is
\* appended: same PWM values written, same sample appended, same line
\* printed, same next poll interval.
C24_LogPermissionNonFatal ==
    /\ [][(pc = "loop" /\ outcome' = "ok") =>
            /\ CompletesAsLogged
            /\ pc' = "sleep"
            /\ steps' = TickSteps("ok")
            /\ csv_rows' \in {csv_rows, csv_rows + 1}]_vars
    /\ [][LogPermissionDenied => UNCHANGED <<csv_rows, csv_last>>]_vars
    /\ [][(pc = "main" /\ outcome' \in {"header warning", "constructed"}) =>
            /\ pc' = "run"
            /\ UNCHANGED <<histVars, fanVars, exploreVars, hwVars, logVars>>]_vars

\* An iteration completed, printed its line and chose the fast interval while
\* the log could not be appended to.
C24_Witness ==
    /\ pc = "sleep" /\ ticks > 0
    /\ outcome = "ok"
    /\ csv_rows = 0
    /\ console # None
    /\ console[1].intake_pwm = hw_intake_pwm
    /\ pwm_history[Len(pwm_history)] = current_intake_pwm
    /\ poll_interval = Some(POLL_INTERVAL_CRITICAL)


\* ---------------------------------------------------------------------------
\* C25

\* The step is an iteration that got a reading and decided.
Decides == pc = "loop" /\ outcome' \in {"ok", "write error", "log error"}

\* The values handed to set_pwm and the driver reported are those of the
\* emergency rule when it matches, and else those of the trend rule when it
\* matches.
FirstMatchWins ==
    LET rise == Rise(temp_history)
        boost == Min(30, (5 * rise) \div 2)
    IN  IF MaxOf(temps') >= EMERGENCY_TEMP
        THEN /\ driver' = Some("emergency")
             /\ intake_pwm' = Some(MAX_PWM)
             /\ exhaust_pwm' = Some(MAX_PWM)
        ELSE IF rise > 2 * 5
             THEN /\ driver' = Some("trend")
                  /\ intake_pwm' = Some(Min(MAX_PWM, current_intake_pwm + boost))
                  /\ exhaust_pwm' = Some(Min(MAX_PWM, current_exhaust_pwm + boost))
             ELSE driver' # Some("emergency") /\ driver' # Some("trend")

\* C25 as claimed: on every iteration, with or without exploration mode, the
\* values applied to the fans and the driver reported are those of the first
\* rule that matches: an iteration at or above EMERGENCY_TEMP reports
\* "emergency", one below it with a trend above 5 applies the trend target and
\* reports "trend".
C25_FirstMatchWins == [][Decides => FirstMatchWins]_vars

\* The part of C25 the code keeps: the cascade without exploration mode, where
\* the curve rule reports "temp".
C25_FirstMatchWinsWithoutExploration ==
    [][(Decides /\ ~EXPLORE_MODE) =>
          /\ FirstMatchWins
          /\ driver' \in {Some("emergency"), Some("trend"), Some("temp")}]_vars


\* ---------------------------------------------------------------------------
\* C26

\* Driving values strictly increasing and PWM values non-decreasing.
WellFormedCurve(points) ==
    /\ StrictlyIncreasing(points)
    /\ \A i \in 1 .. Len(points) - 1 : points[i][2] <= points[i + 1][2]

\* C26 as claimed: a curve whose driving values are not strictly increasing
\* or whose PWM values decrease is never evaluated: get_temp_based_pwm returns
\* no value for it.
C26_MalformedCurveRejected ==
    (call.fn = "get_temp_based_pwm" /\ ~WellFormedCurve(call.points)) =>
        call.result1 = None

\* The two configured curves are well formed, so the process as shipped never
\* evaluates a malformed curve.
C26_ConfiguredCurvesWellFormed ==
    \A points \in ConfiguredCurves : WellFormedCurve(points)


\* ---------------------------------------------------------------------------
\* C27

\* The step is an iteration in which explore_exhaust moved the sweep on from
\* its level because the dwell had elapsed (no retreat, no change of load).
SweepAdvances ==
    /\ EXPLORE_MODE
    /\ Decides
    /\ driver' = Some("explore")
    /\ explore_load_bucket' = explore_load_bucket
    /\ explore_exhaust_idx' # explore_exhaust_idx

\* The level of the sweep the iteration found.
Candidate == EXPLORE_EXHAUST_LEVELS[explore_exhaust_idx + 1]

\* C27 as claimed, in what it requires of the iteration before the one that
\* moves the sweep on: the exhaust fan is at the candidate, and the candidate,
\* not the idle target, is what that iteration handed to set_pwm; an
\* iteration below the utilization threshold does not count for the dwell.
C27_AdvanceOnlyFromHeldCandidate ==
    [][SweepAdvances =>
          /\ hw_exhaust_pwm = Candidate
          /\ exhaust_pwm = Some(Candidate)
          /\ driver = Some("explore")
          /\ now' - explore_start_time[1] >= EXPLORE_HOLD_TIME]_vars

\* The part of C27 the code keeps: the sweep moves on only when
\* EXPLORE_HOLD_TIME has passed on the clock since the dwell started, whatever
\* was handed to set_pwm in between.
C27_AdvanceAfterClockDwell ==
    [][SweepAdvances =>
          /\ explore_start_time # None
          /\ now' - explore_start_time[1] >= EXPLORE_HOLD_TIME]_vars


\* ---------------------------------------------------------------------------
\* C28

\* The place of a call among the calls of the iteration the step makes, 0
\* when the iteration does not make it.
StepOf(name) ==
    IF \E i \in 1 .. Len(steps') : steps'[i] = name
    THEN CHOOSE i \in 1 .. Len(steps') : steps'[i] = name
    ELSE 0

\* The value the iteration of the step wrote to a PWM node.
Written(node) ==
    LET w == SelectSeq(pwm_writes', LAMBDA x : x[1] = node) IN w[1][2]

\* C28: an iteration of the loop whose set_pwm returned appends exactly one
\* sample to the history, after set_pwm and before log(); an iteration that
\* raised in get_gpu_stats or in set_pwm appends none; the PWM of the sample
\* is current_intake_pwm as set_pwm left it, and the intake and exhaust values
\* of the row and of the line log() emits are the values written to the two
\* nodes.
C28_OneSamplePerWrittenTick ==
    /\ [][(pc = "loop" /\ outcome' \in {"ok", "log error"}) =>
            /\ Appended(temp_history, temp_history', MaxOf(temps'))
            /\ Appended(util_history, util_history', MaxOf(utils'))
            /\ Appended(pwm_history, pwm_history', current_intake_pwm')
            /\ current_intake_pwm' = Written("pwm3")
            /\ 0 < StepOf("set_pwm")
            /\ StepOf("set_pwm") < StepOf("update_history")
            /\ StepOf("update_history") < StepOf("log")]_vars
    /\ [][(pc = "loop" /\ outcome' \in {"sensor error", "write error"}) =>
            /\ UNCHANGED histVars
            /\ StepOf("update_history") = 0]_vars
    /\ [][(pc = "loop" /\ outcome' = "ok") =>
            /\ console'[1].intake_pwm = Written("pwm3")
            /\ console'[1].exhaust_pwm = Written("pwm1")
            /\ csv_rows' # csv_rows =>
                  /\ csv_rows' = csv_rows + 1
                  /\ csv_last'[1].intake_pwm = Written("pwm3")
                  /\ csv_last'[1].exhaust_pwm = Written("pwm1")]_vars

\* A full history took the sample of an iteration that changed the intake
\* PWM and logged it.
C28_Witness ==
    /\ pc = "sleep" /\ ticks > 1
    /\ outcome = "ok"
    /\ Len(pwm_history) = HISTORY_MAXLEN
    /\ pwm_history[HISTORY_MAXLEN] = current_intake_pwm
    /\ pwm_history[HISTORY_MAXLEN] # pwm_history[HISTORY_MAXLEN - 1]
    /\ csv_last # None
    /\ csv_last[1].intake_pwm = hw_intake_pwm
    /\ csv_last[1].exhaust_pwm = hw_exhaust_pwm
    /\ csv_rows > HISTORY_MAXLEN


\* ---------------------------------------------------------------------------
\* C29

\* C29 as claimed: over consecutive non-emergency iterations whose poll
\* intervals sum to one second, the PWM applied to a fan goes down by at most
\* MAX_PWM_CHANGE_PER_SEC in all.
C29_DecreasePerSecond ==
    (call.fn = "ramp" /\ call.elapsed = MS_PER_SEC) =>
        call.start_pwm - call.current_pwm <= MAX_PWM_CHANGE_PER_SEC

\* What the code keeps: each iteration lowers the PWM by at most
\* max(5, int(10 * poll_interval)), which is 5 at both poll intervals, so by at
\* most 5 times the number of iterations.
C29_DecreasePerIteration ==
    call.fn = "ramp" =>
        call.start_pwm - call.current_pwm <= MIN_DECREASE * call.iterations


\* ---------------------------------------------------------------------------
\* C30

\* C30 as claimed: no value written to the exhaust node by an iteration of the
\* loop is below exhaust_min_pwm.
C30_ExhaustFloor ==
    \A i \in 1 .. Len(pwm_writes) :
        pwm_writes[i][1] = "pwm1" => pwm_writes[i][2] >= EXHAUST_MIN_PWM


\* ---------------------------------------------------------------------------
\* C31

\* At every temperature the exhaust curve is at or below the intake curve.
C31_ExhaustCurveBelowIntakeCurve ==
    \A t \in 0 .. MaxCurveTemp :
        get_temp_based_pwm(t, TEMP_EXHAUST_POINTS)
            <= get_temp_based_pwm(t, TEMP_INTAKE_POINTS)

\* C31 as claimed: without exploration mode, an iteration that writes both
\* fans writes to the exhaust node no more than to the intake node (and the
\* exhaust curve is at or below the intake curve at every temperature).
C31_ExhaustAtMostIntake ==
    /\ C31_ExhaustCurveBelowIntakeCurve
    /\ (~EXPLORE_MODE /\ Len(pwm_writes) = 2) =>
          pwm_writes[2][2] <= pwm_writes[1][2]


\* C32: in both training scripts the monotonicity pass turns any raw table
\* into a curve that, read in increasing bucket order, has non-decreasing PWM,
\* every value >= 110 and >= the raw value of its bucket, and equal to the
\* running maximum of 110 and all raw values of buckets up to and including it.
TrainDone == call.fn \in {"analyze_and_build_power_curve", "analyze_and_build_curve"}
                 /\ call.printed # None

Keys(table) == {i \in 1 .. Len(table) : table[i] # None}

SetMax(S) == CHOOSE x \in S : \A y \in S : y <= x

RunningMax(raw_curve, i) ==
    SetMax({Quarters(110)} \cup {raw_curve[j][1] : j \in {k \in Keys(raw_curve) : k <= i}})

C32_MonotonicityPass ==
    TrainDone =>
        LET raw == call.raw_curve
            curve == call.monotonic_curve
        IN /\ Len(curve) = Len(raw)
           /\ Keys(curve) = Keys(raw)
           /\ \A i \in Keys(curve) :
                 /\ curve[i][1] >= Quarters(110)
                 /\ curve[i][1] >= raw[i][1]
                 /\ curve[i][1] = RunningMax(raw, i)
                 /\ \A j \in Keys(curve) : j < i => curve[j][1] <= curve[i][1]

\* Both scripts have run on a table whose raw values fall after a higher one
\* and whose first value is below 110.
C32_Witness ==
    /\ TrainDone
    /\ \E i, j \in Keys(call.raw_curve) :
          /\ i < j
          /\ call.raw_curve[j][1] < call.raw_curve[i][1]
          /\ call.raw_curve[i][1] > Quarters(110)
          /\ call.monotonic_curve[j][1] = call.raw_curve[i][1]
    /\ \E i \in Keys(call.raw_curve) :
          call.raw_curve[i][1] < Quarters(110) /\ call.monotonic_curve[i][1] = Quarters(110)


\* C33: every curve the training scripts print for the controller, the
\* simplified key-point curves included, is monotonic: a higher power or
\* utilization never gets a lower PWM, for any set of populated buckets.
MonotonicPoints(points) ==
    \A i, j \in Keys(points) :
        points[i][1][1] < points[j][1][1] => points[i][1][2] <= points[j][1][2]

C33_PrintedCurvesMonotonic ==
    TrainDone => MonotonicPoints(call.printed[1]) /\ MonotonicPoints(call.printed[2])

\* What the scripts do keep: the curves of train_pwm_curve.py, whose table
\* has every bucket, and the full POWER_PWM_POINTS are monotonic.
C33_FullCurvesMonotonic ==
    TrainDone =>
        /\ MonotonicPoints(call.printed[1])
        /\ call.fn = "analyze_and_build_curve" => MonotonicPoints(call.printed[2])


\* C34: the preemptive trend boost never commands less cooling than the
\* curve: on every tick decided by the trend rule, each fan's target PWM is
\* >= the curve-based target of that fan for the tick's max temperature.
C34_TrendAtLeastCurve ==
    (driver = Some("trend") /\ temps # None) =>
        /\ target_intake[1] >= get_temp_based_pwm(MaxOf(temps), TEMP_INTAKE_POINTS)
        /\ target_exhaust[1] >= get_temp_based_pwm(MaxOf(temps), TEMP_EXHAUST_POINTS)


\* C35: with exploration disabled, readings constant at a max temperature
\* below EMERGENCY_TEMP and every read and write succeeding, each fan's
\* applied PWM reaches its curve target after finitely many ticks (at most
\* ceil((current - target) / 5) once the trend window has settled), stays
\* equal to it on every later tick, and never oscillates: a fan that has been
\* slowed under the constant readings is never sped up again.
C35_NeverOscillates ==
    [][ call.fn = "run" =>
          /\ call.fell_intake => call'.current_intake_pwm <= call.current_intake_pwm
          /\ call.fell_exhaust => call'.current_exhaust_pwm <= call.current_exhaust_pwm
      ]_vars

\* What the loop does keep.  The trend window has settled when the last 3
\* samples of the history are the constant temperature.
Settled ==
    /\ call.fn = "run"
    /\ \A k \in 0 .. 2 :
          call.temp_history[Len(call.temp_history) - k] = MaxOf(call.reading.temps)

IntakeCurveTarget == get_temp_based_pwm(MaxOf(call.reading.temps), TEMP_INTAKE_POINTS)
ExhaustCurveTarget == get_temp_based_pwm(MaxOf(call.reading.temps), TEMP_EXHAUST_POINTS)

\* Both fans end at their curve targets and stay there.
C35_ReachesCurveTarget ==
    <>[](/\ call.current_intake_pwm = IntakeCurveTarget
         /\ call.current_exhaust_pwm = ExhaustCurveTarget)

\* Once the window has settled, a tick moves each fan towards its target,
\* by at least 5 or onto it, never across it and never away from it.
Approaches(old, new, target) ==
    \/ new = target
    \/ target < new /\ new <= old - 5

C35_ApproachesOnceSettled ==
    [][ Settled =>
          /\ Approaches(call.current_intake_pwm, call'.current_intake_pwm,
                        IntakeCurveTarget)
          /\ Approaches(call.current_exhaust_pwm, call'.current_exhaust_pwm,
                        ExhaustCurveTarget)
      ]_vars

====
